---- MODULE Spec2Model ----
(***************************************************************************)
(* tubeqa: the time-window synchronisation and caching engine.             *)
(*                                                                         *)
(*   SummarizerClient    src/ai/promptClient.js        (single-slot cache) *)
(*   YouTubeAIAssistant  src/content/markdownParser.js (trigger scheduler, *)
(*                                                      coordinator)       *)
(*   UIOverlay           src/unnamed/part_000          (gate, history log, *)
(*                                                      conversation)      *)
(*                                                                         *)
(* Each object is one variable, a record of its fields, and each method is *)
(* an operator from the object before the call to the object after it, so  *)
(* that a handler calling several methods is their composition.            *)
(*                                                                         *)
(* Playback time is counted in ticks of half a second, so that             *)
(* Math.floor(currentTime) is a real conversion: 30.0 s and 30.5 s are     *)
(* different positions with the same floor.                                *)
(***************************************************************************)
EXTENDS Integers, Sequences, FiniteSets, TLC

VARIABLES
  summarizer,            \* SummarizerClient: initialized, currentSummary, currentSummaryTimeRange
  summarizeInFlight,     \* getSummaryForTime calls suspended at await summarizer.summarize
  summarizeInvocations,  \* number of summarizer.summarize calls issued so far
  assistant,             \* YouTubeAIAssistant: isInitialized, isRunning, lastTriggerTime, ...
  video,                 \* the <video> element: exists, currentTime (ticks), paused
  storage,               \* localStorage['youtube-ai-assistant-enabled']
  opened,                \* the window the last question opened by the user came with
  ui,                    \* UIOverlay: its fields and the DOM nodes it owns
  answerRequests,        \* suspended YouTubeAIAssistant.handleQuestionClick calls
  lastStart,             \* the latest updateQuestions call; awaiting: still at its first await
  cycles,                \* updateQuestions calls suspended past their first await
  fired,                 \* boundary seconds that fired since the last navigation
  script,                \* observer of the update sequence 29,30,30,31,60,60
  lastOp                 \* the handler that ran last, with its inputs and its outcome

vars == <<summarizer, summarizeInFlight, summarizeInvocations, assistant, video,
          storage, opened, ui, answerRequests, lastStart, cycles, fired,
          script, lastOp>>

cacheVars == <<summarizer, summarizeInFlight, summarizeInvocations>>
uiVars == <<storage, opened, ui, answerRequests>>
schedVars == <<assistant, video, lastStart, cycles, fired, script>>

(***************************************************************************)
(* Time                                                                    *)
(***************************************************************************)
\* n seconds, in ticks
Sec(n) == n * 2

\* Math.floor(t) of a position t given in ticks, in seconds
Floor(t) == t \div 2

\* Math.max(a, b)
Max(a, b) == IF a >= b THEN a ELSE b

(***************************************************************************)
(* Program constants                                                       *)
(***************************************************************************)
questionGenerationInterval == 30
transcriptBufferAhead == 30
summaryBuffer == 150
userQueryHalfWindow == 15

(***************************************************************************)
(* Bounds                                                                  *)
(***************************************************************************)
\* summarizer.summarize calls that may be suspended at the same time
MaxInFlight == 2
\* cap of the invocation counter
MaxInvocations == 3
\* timeupdate listeners one assistant registers (one per startQuestionLoop)
MaxListeners == 2
\* question groups the history log holds
MaxHistory == 3
\* answer requests suspended at the same time
MaxRequests == 2
\* chunks one answer stream delivers
MaxChunks == 2

RemoveAt(s, i) == SubSeq(s, 1, i - 1) \o SubSeq(s, i + 1, Len(s))

(***************************************************************************)
(* SummarizerClient                                                        *)
(***************************************************************************)
NullSummary == "null"

\* what summarizer.summarize may resolve to
Summaries == {"", "S1", "S2"}

\* transcript texts handed to getSummaryForTime: empty, blank, or with content
Transcripts == {"", " ", "speaker discusses gravity"}

\* transcriptText.trim()
Trim(text) == IF text = " " THEN "" ELSE text

\* JavaScript truthiness of this.currentSummary (null and '' are falsy)
Truthy(s) == s # NullSummary /\ s # ""

\* undefined - 150: the window bounds the click path computes from a start
\* time it never received
NaN == -1000000

EmptyRange == [start |-> -1, end |-> -1]

\* playback positions (ticks) at which a cycle asks for a summary
CycleTimes == {Sec(0), Sec(30), Sec(60), Sec(600)}

\* the summary window of a cycle started at t: [t - summaryBuffer, t + summaryBuffer]
SummaryWindow(t) == [start |-> t - Sec(summaryBuffer), end |-> t + Sec(summaryBuffer)]

RequestWindows == {SummaryWindow(t) : t \in CycleTimes}

SummarizerConstructor ==
  [initialized |-> FALSE, currentSummary |-> NullSummary,
   currentSummaryTimeRange |-> EmptyRange]

\* halfWindow <= this.currentSummaryTimeRange.end,
\* with halfWindow = (windowEnd - windowStart)/2; a comparison with NaN is false
CacheCovers(s, windowStart, windowEnd) ==
  /\ Truthy(s.currentSummary)
  /\ windowStart # NaN /\ windowEnd # NaN /\ s.currentSummaryTimeRange.end # NaN
  /\ (windowEnd - windowStart) <= 2 * s.currentSummaryTimeRange.end

\* getSummaryForTime up to its return or its suspension at await summarize:
\* how it ends and what it returns
GetSummaryForTime(s, transcriptText, windowStart, windowEnd) ==
  IF ~s.initialized
    THEN [outcome |-> "notInitialized", returned |-> ""]
  ELSE IF CacheCovers(s, windowStart, windowEnd)
    THEN [outcome |-> "cached", returned |-> s.currentSummary]
  ELSE IF Trim(transcriptText) = ""
    THEN [outcome |-> "noTranscript", returned |-> ""]
  ELSE [outcome |-> "invoked", returned |-> NullSummary]

\* a store that keeps the entry already in the slot
CacheStoreFirstWins(s, summary, windowStart, windowEnd) ==
  IF s.currentSummary # NullSummary THEN s
  ELSE [s EXCEPT !.currentSummary = summary,
                 !.currentSummaryTimeRange = [start |-> windowStart, end |-> windowEnd]]

\* a store that writes the content and leaves the window of the slot
CacheStoreContentOnly(s, summary, windowStart, windowEnd) ==
  [s EXCEPT !.currentSummary = summary]

\* the two assignments after await this.summarizer.summarize
CacheStore(s, summary, windowStart, windowEnd) ==
  [s EXCEPT !.currentSummary = summary,
            !.currentSummaryTimeRange = [start |-> windowStart, end |-> windowEnd]]

\* a clearCache that leaves the slot as it is
ClearCacheKeeps(s) == s

\* clearCache
ClearCache(s) ==
  [s EXCEPT !.currentSummary = NullSummary, !.currentSummaryTimeRange = EmptyRange]

\* a caller awaits getSummaryForTime(text, windowStart, windowEnd)
RequestSummary(transcriptText, windowStart, windowEnd) ==
  LET r == GetSummaryForTime(summarizer, transcriptText, windowStart, windowEnd) IN
  /\ r.outcome = "invoked" =>
       /\ Len(summarizeInFlight) < MaxInFlight
       /\ summarizeInvocations < MaxInvocations
  /\ summarizeInFlight' =
       IF r.outcome = "invoked"
         THEN Append(summarizeInFlight, [start |-> windowStart, end |-> windowEnd])
         ELSE summarizeInFlight
  /\ summarizeInvocations' =
       IF r.outcome = "invoked" THEN summarizeInvocations + 1 ELSE summarizeInvocations
  /\ lastOp' = [op |-> "getSummaryForTime", start |-> windowStart, end |-> windowEnd,
                text |-> transcriptText, outcome |-> r.outcome, returned |-> r.returned]
  /\ UNCHANGED <<summarizer, uiVars, schedVars>>

\* await this.summarizer.summarize resolves for the i-th suspended call
SummarizeResolved(i, summary) ==
  /\ i \in 1..Len(summarizeInFlight)
  /\ summarizer' = CacheStore(summarizer, summary, summarizeInFlight[i].start,
                              summarizeInFlight[i].end)
  /\ summarizeInFlight' = RemoveAt(summarizeInFlight, i)
  /\ lastOp' = [op |-> "summarizeResolved", start |-> summarizeInFlight[i].start,
                end |-> summarizeInFlight[i].end, returned |-> summary,
                replaced |-> [currentSummary |-> summarizer.currentSummary,
                              currentSummaryTimeRange |->
                                summarizer.currentSummaryTimeRange]]
  /\ UNCHANGED <<summarizeInvocations, uiVars, schedVars>>

\* await this.summarizer.summarize rejects: caught, '' is returned
SummarizeRejected(i) ==
  /\ i \in 1..Len(summarizeInFlight)
  /\ summarizeInFlight' = RemoveAt(summarizeInFlight, i)
  /\ lastOp' = [op |-> "summarizeRejected", start |-> summarizeInFlight[i].start,
                end |-> summarizeInFlight[i].end, returned |-> ""]
  /\ UNCHANGED <<summarizer, summarizeInvocations, uiVars, schedVars>>

\* SummarizerClient.initialize, called on its own
SummarizerInitialize(ok) ==
  /\ ~summarizer.initialized
  /\ summarizer' = [summarizer EXCEPT !.initialized = ok]
  /\ lastOp' = [op |-> "SummarizerClient.initialize", ok |-> ok]
  /\ UNCHANGED <<summarizeInFlight, summarizeInvocations, uiVars, schedVars>>

\* SummarizerClient.clearCache, called on its own
ClearCacheCall ==
  /\ summarizer' = ClearCache(summarizer)
  /\ lastOp' = [op |-> "clearCache"]
  /\ UNCHANGED <<summarizeInFlight, summarizeInvocations, uiVars, schedVars>>

CacheNext ==
  \/ \E ok \in BOOLEAN : SummarizerInitialize(ok)
  \/ \E text \in Transcripts, w \in RequestWindows :
       RequestSummary(text, w.start, w.end)
  \/ \E i \in 1..MaxInFlight, s \in Summaries : SummarizeResolved(i, s)
  \/ \E i \in 1..MaxInFlight : SummarizeRejected(i)
  \/ ClearCacheCall

(***************************************************************************)
(* UIOverlay                                                               *)
(***************************************************************************)
\* an argument that was not passed (JavaScript undefined)
Undefined == -2000000

\* a - b in JavaScript numbers: undefined - 150 is NaN
Minus(a, b) == IF a = Undefined \/ a = NaN THEN NaN ELSE a - b

\* a + b in JavaScript numbers
Plus(a, b) == IF a = Undefined \/ a = NaN THEN NaN ELSE a + b

\* this.pendingQuestions = null
NullPending == [set |-> FALSE, questions |-> <<>>, timestamp |-> 0]

\* this.conversationContext = null
NullContext == [kind |-> "null", startTime |-> Undefined, endTime |-> Undefined]

\* this.conversationContext = {startTime, endTime}
Context(startTime, endTime) ==
  [kind |-> "window", startTime |-> startTime, endTime |-> endTime]

\* the answer block showing the loading dots
LoadingBlock == [loading |-> TRUE, text |-> <<>>]

\* no answer block (no chatbox)
NoBlock == [loading |-> FALSE, text |-> <<>>]

\* the failure text of the click handler's catch
SorryText == << <<"Sorry, I encountered an error generating the answer.", 0>> >>

\* questionsList.innerHTML as createOverlay leaves it
BlankList == [kind |-> "blank", questions |-> <<>>, nav |-> FALSE,
              backDisabled |-> FALSE, forwardDisabled |-> FALSE, hasInput |-> FALSE]

\* the 'Analyzing video...' placeholder
AnalyzingList == [kind |-> "analyzing", questions |-> <<>>, nav |-> FALSE,
                  backDisabled |-> FALSE, forwardDisabled |-> FALSE, hasInput |-> FALSE]

\* questions.slice(0, n)
Slice(s, n) == SubSeq(s, 1, IF Len(s) < n THEN Len(s) ELSE n)

UIOverlayConstructor ==
  [overlay |-> FALSE, isVisible |-> FALSE, aiEnabled |-> TRUE, isHovering |-> FALSE,
   pendingQuestions |-> NullPending, chatbox |-> FALSE, isChatboxVisible |-> FALSE,
   isStreaming |-> FALSE, questionHistory |-> <<>>, currentQuestionGroupIndex |-> -1,
   conversationHistory |-> <<>>, conversationContext |-> NullContext,
   onFollowUpQuestion |-> FALSE, hideTimer |-> FALSE,
   mouseMoveTimeout |-> FALSE,
   \* DOM nodes the overlay owns
   questionsList |-> BlankList, listDisplay |-> "", queryInput |-> "",
   questionBlock |-> "", answerBlock |-> NoBlock, followupInput |-> "",
   activeElement |-> "body"]

\* loadToggleState: savedState !== null => aiEnabled = (savedState === 'true')
LoadToggleState(u, saved) ==
  IF saved = "absent" THEN u ELSE [u EXCEPT !.aiEnabled = (saved = "true")]

Show(u) ==
  IF ~u.overlay THEN u
  ELSE IF ~u.aiEnabled THEN u
  ELSE [u EXCEPT !.isVisible = TRUE]

\* a hide that does not look at the focus
HideWhileTyping(u) ==
  IF ~u.overlay THEN u
  ELSE IF u.isChatboxVisible THEN u
  ELSE IF u.isStreaming THEN u
  ELSE [u EXCEPT !.isVisible = FALSE]

Hide(u) ==
  IF ~u.overlay THEN u
  ELSE IF u.isChatboxVisible THEN u
  ELSE IF u.isStreaming THEN u
  ELSE IF u.activeElement = "query" \/ u.activeElement = "followup" THEN u
  ELSE [u EXCEPT !.isVisible = FALSE]

\* UIOverlay.initialize: loadToggleState, createOverlay, createToggleButton, hide
UIOverlayInitialize(u, saved) ==
  Hide([LoadToggleState(u, saved) EXCEPT !.overlay = TRUE])

\* a rendering that shows every question of the group under the cursor
RenderCurrentQuestionsAll(u) ==
  IF ~u.overlay THEN u
  ELSE
    LET cleared == [u EXCEPT !.queryInput = "",
                             !.activeElement = IF @ = "query" THEN "body" ELSE @]
    IN IF Len(u.questionHistory) = 0 \/ u.currentQuestionGroupIndex < 0
         THEN [cleared EXCEPT !.questionsList = AnalyzingList]
         ELSE LET currentGroup == u.questionHistory[u.currentQuestionGroupIndex + 1] IN
              [cleared EXCEPT !.questionsList =
                 [kind |-> "group",
                  questions |-> currentGroup.questions,
                  nav |-> Len(u.questionHistory) > 1,
                  backDisabled |-> (Len(u.questionHistory) > 1
                                    /\ u.currentQuestionGroupIndex = 0),
                  forwardDisabled |-> (Len(u.questionHistory) > 1
                                       /\ u.currentQuestionGroupIndex
                                            = Len(u.questionHistory) - 1),
                  hasInput |-> TRUE]]

\* renderCurrentQuestions: the list is emptied (the query field and what was
\* typed in it go with it) and rebuilt from the group under the cursor
RenderCurrentQuestions(u) ==
  IF ~u.overlay THEN u
  ELSE
    LET cleared == [u EXCEPT !.queryInput = "",
                             !.activeElement = IF @ = "query" THEN "body" ELSE @]
    IN IF Len(u.questionHistory) = 0 \/ u.currentQuestionGroupIndex < 0
         THEN [cleared EXCEPT !.questionsList = AnalyzingList]
         ELSE LET currentGroup == u.questionHistory[u.currentQuestionGroupIndex + 1] IN
              [cleared EXCEPT !.questionsList =
                 [kind |-> "group",
                  questions |-> Slice(currentGroup.questions, 3),
                  nav |-> Len(u.questionHistory) > 1,
                  backDisabled |-> (Len(u.questionHistory) > 1
                                    /\ u.currentQuestionGroupIndex = 0),
                  forwardDisabled |-> (Len(u.questionHistory) > 1
                                       /\ u.currentQuestionGroupIndex
                                            = Len(u.questionHistory) - 1),
                  hasInput |-> TRUE]]

\* showError(message): the list is emptied and shows the message
ShowError(u, message) ==
  IF ~u.overlay THEN u
  ELSE [u EXCEPT !.queryInput = "",
                 !.activeElement = IF @ = "query" THEN "body" ELSE @,
                 !.questionsList =
                   [kind |-> "error", questions |-> <<message>>, nav |-> FALSE,
                    backDisabled |-> FALSE, forwardDisabled |-> FALSE,
                    hasInput |-> FALSE]]

\* the position at which a group stamped `timestamp` goes in a log kept in the
\* order of the stamps
RECURSIVE SortedPosition(_, _)
SortedPosition(history, timestamp) ==
  IF Len(history) = 0 \/ history[Len(history)].timestamp <= timestamp
    THEN Len(history)
    ELSE SortedPosition(SubSeq(history, 1, Len(history) - 1), timestamp)

\* updateQuestions that keeps the log in the order of the stamps, which is the
\* order in which the cycles were triggered
UpdateQuestionsByTimestamp(u, questions, timestamp) ==
  IF u.isHovering
    THEN [u EXCEPT !.pendingQuestions =
            [set |-> TRUE, questions |-> questions, timestamp |-> timestamp]]
    ELSE LET k == SortedPosition(u.questionHistory, timestamp)
             pushed ==
               IF Len(questions) > 0
                 THEN [u EXCEPT !.questionHistory =
                                   SubSeq(@, 1, k)
                                     \o <<[questions |-> questions,
                                           timestamp |-> timestamp]>>
                                     \o SubSeq(@, k + 1, Len(@)),
                                !.currentQuestionGroupIndex = k]
                 ELSE u
         IN RenderCurrentQuestions(pushed)

\* updateQuestions that appends without moving the cursor to the new group
UpdateQuestionsKeepCursor(u, questions, timestamp) ==
  IF u.isHovering
    THEN [u EXCEPT !.pendingQuestions =
            [set |-> TRUE, questions |-> questions, timestamp |-> timestamp]]
    ELSE LET pushed ==
               IF Len(questions) > 0
                 THEN [u EXCEPT !.questionHistory =
                                   Append(@, [questions |-> questions,
                                              timestamp |-> timestamp]),
                                !.currentQuestionGroupIndex = IF @ < 0 THEN 0 ELSE @]
                 ELSE u
         IN RenderCurrentQuestions(pushed)

\* an updateQuestions that stores an empty group too
UpdateQuestionsPushesEmpty(u, questions, timestamp) ==
  IF u.isHovering
    THEN [u EXCEPT !.pendingQuestions =
            [set |-> TRUE, questions |-> questions, timestamp |-> timestamp]]
    ELSE RenderCurrentQuestions(
           [u EXCEPT !.questionHistory =
                       Append(@, [questions |-> questions, timestamp |-> timestamp]),
                     !.currentQuestionGroupIndex = Len(u.questionHistory)])

\* UIOverlay.updateQuestions(questions, timestamp): the gate
UpdateQuestions(u, questions, timestamp) ==
  IF u.isHovering
    THEN [u EXCEPT !.pendingQuestions =
            [set |-> TRUE, questions |-> questions, timestamp |-> timestamp]]
    ELSE LET pushed ==
               IF Len(questions) > 0
                 THEN [u EXCEPT !.questionHistory =
                                   Append(@, [questions |-> questions,
                                              timestamp |-> timestamp]),
                                !.currentQuestionGroupIndex = Len(u.questionHistory)]
                 ELSE u
         IN RenderCurrentQuestions(pushed)

\* the mouseleave listener of setupHoverDetection
MouseLeaveHandler(u) ==
  LET left == [u EXCEPT !.isHovering = FALSE] IN
  IF u.pendingQuestions.set
    THEN [UpdateQuestions(left, u.pendingQuestions.questions,
                          u.pendingQuestions.timestamp)
            EXCEPT !.pendingQuestions = NullPending]
    ELSE left

\* a backward step with no lower bound on the cursor
NavigateBackwardUnbounded(u) ==
  IF u.currentQuestionGroupIndex >= 0
    THEN RenderCurrentQuestions([u EXCEPT !.currentQuestionGroupIndex = @ - 1])
    ELSE u

NavigateBackward(u) ==
  IF u.currentQuestionGroupIndex > 0
    THEN RenderCurrentQuestions([u EXCEPT !.currentQuestionGroupIndex = @ - 1])
    ELSE u

NavigateForward(u) ==
  IF u.currentQuestionGroupIndex < Len(u.questionHistory) - 1
    THEN RenderCurrentQuestions([u EXCEPT !.currentQuestionGroupIndex = @ + 1])
    ELSE u

DestroyChatbox(u) ==
  [u EXCEPT !.chatbox = FALSE, !.isChatboxVisible = FALSE, !.isStreaming = FALSE,
            !.conversationHistory = <<>>, !.conversationContext = NullContext,
            !.questionBlock = "", !.answerBlock = NoBlock, !.followupInput = "",
            !.activeElement = IF @ = "followup" THEN "body" ELSE @]

\* showChatbox(question, startTime, endTime); hiding the list takes the focus
\* from the query field in it
ShowChatbox(u, question, startTime, endTime) ==
  LET hidden == IF u.overlay
                  THEN [u EXCEPT !.listDisplay = "none",
                                 !.activeElement = IF @ = "query" THEN "body" ELSE @]
                  ELSE u
  IN [DestroyChatbox(hidden) EXCEPT
        !.conversationHistory = <<[role |-> "user", content |-> question]>>,
        !.conversationContext = Context(startTime, endTime),
        !.chatbox = TRUE,
        !.questionBlock = question,
        !.answerBlock = LoadingBlock,
        !.isChatboxVisible = TRUE,
        !.isStreaming = TRUE]

\* updateChatboxContent without its tests of this.chatbox and isChatboxVisible
UpdateChatboxContentDetached(u, text) ==
  [u EXCEPT !.answerBlock = [loading |-> FALSE, text |-> text]]

\* updateChatboxContent(text)
UpdateChatboxContent(u, text) ==
  IF ~u.chatbox THEN u
  ELSE IF ~u.isChatboxVisible THEN u
  ELSE [u EXCEPT !.answerBlock = [loading |-> FALSE, text |-> text]]

\* a finishStreaming that does nothing once the chatbox is gone
FinishStreamingIfOpen(u, fullAnswer) ==
  IF ~u.chatbox THEN u
  ELSE LET done == [u EXCEPT !.isStreaming = FALSE] IN
       IF fullAnswer # <<>>
         THEN [done EXCEPT !.conversationHistory =
                 Append(@, [role |-> "assistant", content |-> fullAnswer])]
         ELSE done

\* finishStreaming(fullAnswer); undefined and '' are the empty text
FinishStreaming(u, fullAnswer) ==
  LET done == [u EXCEPT !.isStreaming = FALSE] IN
  IF fullAnswer # <<>>
    THEN [done EXCEPT !.conversationHistory =
            Append(@, [role |-> "assistant", content |-> fullAnswer])]
    ELSE done

CloseChatbox(u) ==
  IF ~u.chatbox THEN u
  ELSE [u EXCEPT !.listDisplay = IF u.overlay THEN "flex" ELSE @,
                 !.chatbox = FALSE, !.isChatboxVisible = FALSE,
                 !.conversationHistory = <<>>, !.conversationContext = NullContext,
                 !.questionBlock = "", !.answerBlock = NoBlock, !.followupInput = "",
                 !.activeElement = IF @ = "followup" THEN "body" ELSE @]

\* the arguments handleSendMessage passes to this.onFollowUpQuestion
FollowUpArguments(u, message, currentTime) ==
  [message |-> message,
   startTime |-> u.conversationContext.startTime,
   endTime |-> u.conversationContext.endTime]

\* handleSendMessage of showChatbox, with the follow-up field holding `message`
HandleSendMessage(u, message) ==
  IF message = "" \/ u.isStreaming THEN u
  ELSE [u EXCEPT !.followupInput = "",
                 !.questionBlock = message,
                 !.answerBlock = LoadingBlock,
                 !.conversationHistory = Append(@, [role |-> "user", content |-> message])]

\* toggleAI up to the call of window.aiToggleCallback
ToggleAIState(u) ==
  LET flipped == [u EXCEPT !.aiEnabled = ~u.aiEnabled] IN
  IF ~flipped.aiEnabled
    THEN [Hide(flipped) EXCEPT !.pendingQuestions = NullPending]
    ELSE flipped

(***************************************************************************)
(* YouTubeAIAssistant: the trigger scheduler                               *)
(***************************************************************************)
AssistantConstructor ==
  [isInitialized |-> FALSE, isRunning |-> FALSE, lastTriggerTime |-> 0,
   videoElement |-> FALSE,
   initializeCalled |-> FALSE,  \* initialize() runs once per instance
   listeners |-> 0,             \* timeupdate listeners this instance has registered
   toggleCallback |-> FALSE,    \* window.aiToggleCallback is set
   orphans |-> <<>>]            \* the destroyed instances whose listeners stay
                                \* registered on the video element

NoStart ==
  [set |-> FALSE, t |-> 0, by |-> "none", paused |-> FALSE, enabled |-> FALSE,
   awaiting |-> FALSE]

\* YouTubeAIAssistant.updateQuestions is called: a cycle starts, unless the
\* assistant is not initialized; it reads currentTime and is suspended at
\* await getTranscriptChunk(currentTime, currentTime + 30)
CycleStart(a, u, v, by) ==
  [set |-> TRUE, t |-> v.currentTime, by |-> by, paused |-> v.paused,
   enabled |-> u.aiEnabled, awaiting |-> TRUE]

\* no position update has started a cycle
NoneFired == [all |-> {}, last |-> -1]

\* the boundary seconds after a position update at second floorT that started
\* `started` cycles
Fire(f, floorT, started) ==
  IF started > 0 THEN [all |-> f.all \cup {floorT}, last |-> floorT] ELSE f

\* startQuestionLoop: the assistant after it, and whether it called updateQuestions
StartQuestionLoop(a, u, v) ==
  IF a.isRunning THEN [assistant |-> a, started |-> FALSE]
  ELSE IF ~v.exists
    THEN [assistant |-> [a EXCEPT !.isRunning = TRUE, !.videoElement = FALSE],
          started |-> FALSE]
  ELSE [assistant |-> [a EXCEPT !.isRunning = TRUE, !.videoElement = TRUE,
                                !.listeners = @ + 1, !.toggleCallback = TRUE],
        started |-> u.aiEnabled /\ a.isInitialized]

\* stopQuestionLoop: removeEventListener is given a fresh bound function, so
\* the listener stays registered
StopQuestionLoop(a) == [a EXCEPT !.isRunning = FALSE, !.lastTriggerTime = 0]

\* the boundary test without the comparison against lastTriggerTime
IsTriggerNoDedup(currentTime, lastTriggerTime) ==
  /\ currentTime > 0
  /\ currentTime % questionGenerationInterval = 0

\* the boundary test of handleVideoTimeUpdate on currentTime = Math.floor(t)
IsTrigger(currentTime, lastTriggerTime) ==
  /\ currentTime > 0
  /\ currentTime % questionGenerationInterval = 0
  /\ currentTime # lastTriggerTime

\* handleVideoTimeUpdate without the test of videoElement.paused
HandleVideoTimeUpdateWhilePaused(a, u, v) ==
  IF ~a.isRunning \/ ~a.videoElement
    THEN [assistant |-> a, started |-> FALSE]
  ELSE IF ~u.aiEnabled
    THEN [assistant |-> a, started |-> FALSE]
  ELSE IF Floor(v.currentTime) > 0
          /\ Floor(v.currentTime) % questionGenerationInterval = 0
          /\ Floor(v.currentTime) # a.lastTriggerTime
    THEN [assistant |-> [a EXCEPT !.lastTriggerTime = Floor(v.currentTime)],
          started |-> a.isInitialized]
  ELSE [assistant |-> a, started |-> FALSE]

\* handleVideoTimeUpdate without the assignment of lastTriggerTime
HandleVideoTimeUpdateForgets(a, u, v) ==
  IF ~a.isRunning \/ ~a.videoElement \/ v.paused
    THEN [assistant |-> a, started |-> FALSE]
  ELSE IF ~u.aiEnabled
    THEN [assistant |-> a, started |-> FALSE]
  ELSE IF IsTrigger(Floor(v.currentTime), a.lastTriggerTime)
    THEN [assistant |-> a, started |-> a.isInitialized]
  ELSE [assistant |-> a, started |-> FALSE]

\* handleVideoTimeUpdate: the assistant after it, and whether it called updateQuestions
HandleVideoTimeUpdate(a, u, v) ==
  IF ~a.isRunning \/ ~a.videoElement \/ v.paused
    THEN [assistant |-> a, started |-> FALSE]
  ELSE IF ~u.aiEnabled
    THEN [assistant |-> a, started |-> FALSE]
  ELSE IF IsTrigger(Floor(v.currentTime), a.lastTriggerTime)
    THEN [assistant |-> [a EXCEPT !.lastTriggerTime = Floor(v.currentTime)],
          started |-> a.isInitialized]
  ELSE [assistant |-> a, started |-> FALSE]

\* one timeupdate event runs every listener registered on the video element:
\* the assistant after the n-th, and how many cycles they started
RECURSIVE DispatchTimeUpdate(_, _, _, _)
DispatchTimeUpdate(n, a, u, v) ==
  IF n = 0 THEN [assistant |-> a, started |-> 0]
  ELSE LET first == HandleVideoTimeUpdate(a, u, v)
           rest == DispatchTimeUpdate(n - 1, first.assistant, u, v)
       IN [assistant |-> rest.assistant,
           started |-> rest.started + (IF first.started THEN 1 ELSE 0)]

\* a destroy that leaves the instance as it is
DestroyLeavesRunning(a) == [a EXCEPT !.orphans = <<>>]

\* YouTubeAIAssistant.destroy: stopQuestionLoop, then isInitialized = false and
\* isRunning = false; the instance as the listeners it registered still see it
Destroy(a) ==
  [StopQuestionLoop(a) EXCEPT !.isInitialized = FALSE, !.isRunning = FALSE,
                              !.orphans = <<>>]

\* how many cycles the listeners of the destroyed instances start at one
\* timeupdate event
RECURSIVE OrphanStarts(_, _, _)
OrphanStarts(orphans, u, v) ==
  IF orphans = <<>> THEN 0
  ELSE DispatchTimeUpdate(Head(orphans).listeners, Head(orphans), u, v).started
         + OrphanStarts(Tail(orphans), u, v)

\* playback positions (ticks): 0 s, 29 s, 30 s, 30.5 s, 31 s, 60 s, 60.5 s
VideoTimes == {Sec(0), Sec(29), Sec(30), Sec(30) + 1, Sec(31), Sec(60), Sec(60) + 1}

\* the floors of the position updates of the trigger de-duplication scenario
ScriptFloors == <<29, 30, 30, 31, 60, 60>>

ScriptDead == [pos |-> -1, fires |-> <<>>]

\* the observer follows a run that, from construction on, is a successful
\* initialize while playing with the feature enabled and then exactly the
\* updates of ScriptFloors; anything else ends the observation
ScriptStep(s, floorT, started, live) ==
  IF s.pos >= 0 /\ s.pos < Len(ScriptFloors) /\ live /\ floorT = ScriptFloors[s.pos + 1]
    THEN [pos |-> s.pos + 1,
          fires |-> IF started > 0 THEN Append(s.fires, floorT) ELSE s.fires]
    ELSE ScriptDead

\* the timeupdate event at position t
TimeUpdate(t) ==
  /\ video.exists
  /\ LET v == [video EXCEPT !.currentTime = t]
         live == DispatchTimeUpdate(assistant.listeners, assistant, ui, v)
         r == [assistant |-> live.assistant,
               started |-> live.started + OrphanStarts(assistant.orphans, ui, v)]
     IN /\ video' = v
        /\ assistant' = r.assistant
        /\ lastStart' = IF r.started > 0
                          THEN CycleStart(r.assistant, ui, v, "timeupdate")
                          ELSE lastStart
        /\ fired' = Fire(fired, Floor(t), r.started)
        /\ script' = ScriptStep(script, Floor(t), r.started,
                                assistant.isRunning /\ ~v.paused /\ ui.aiEnabled)
        /\ lastOp' = [op |-> "timeupdate", t |-> t, started |-> r.started]
  /\ UNCHANGED <<cacheVars, uiVars, cycles>>

\* the pause event: the overlay's listener shows the overlay
Pause ==
  /\ video.exists /\ ~video.paused
  /\ video' = [video EXCEPT !.paused = TRUE]
  /\ ui' = Show(ui)
  /\ script' = ScriptDead
  /\ lastOp' = [op |-> "pause"]
  /\ UNCHANGED <<cacheVars, assistant, storage, opened, answerRequests, lastStart,
               cycles, fired>>

\* the play event: the overlay's listener arms setTimeout(hide, 1000)
Play ==
  /\ video.exists /\ video.paused
  /\ video' = [video EXCEPT !.paused = FALSE]
  /\ ui' = [ui EXCEPT !.hideTimer = ui.overlay]
  /\ script' = ScriptDead
  /\ lastOp' = [op |-> "play"]
  /\ UNCHANGED <<cacheVars, assistant, storage, opened, answerRequests, lastStart,
               cycles, fired>>

\* the timer of the play listener fires
PlayHideTimer ==
  /\ ui.hideTimer
  /\ ui' = [Hide(ui) EXCEPT !.hideTimer = FALSE]
  /\ lastOp' = [op |-> "hideTimer"]
  /\ UNCHANGED <<cacheVars, schedVars, storage, opened, answerRequests>>

\* YouTubeAIAssistant.initialize; failure is "none", "ai" (the prompt client)
\* or "subtitles" (no captions)
Initialize(failure, summarizerOk) ==
  /\ ~assistant.initializeCalled
  /\ IF failure = "ai"
       THEN /\ assistant' = [assistant EXCEPT !.initializeCalled = TRUE]
            /\ UNCHANGED <<summarizer, ui, lastStart, cycles, fired>>
            /\ script' = ScriptDead
     ELSE IF failure = "subtitles"
       THEN /\ assistant' = [assistant EXCEPT !.initializeCalled = TRUE]
            /\ summarizer' = [summarizer EXCEPT !.initialized = summarizerOk]
            /\ UNCHANGED <<ui, lastStart, cycles, fired>>
            /\ script' = ScriptDead
     ELSE LET u == UIOverlayInitialize(ui, storage)
              r == StartQuestionLoop([assistant EXCEPT !.initializeCalled = TRUE,
                                                       !.isInitialized = TRUE],
                                     u, video)
          IN /\ summarizer' = [summarizer EXCEPT !.initialized = summarizerOk]
             /\ ui' = u
             /\ assistant' = r.assistant
             /\ lastStart' = IF r.started
                               THEN CycleStart(r.assistant, u, video, "startQuestionLoop")
                               ELSE lastStart
             /\ UNCHANGED <<cycles, fired>>
             /\ script' = IF video.exists /\ ~video.paused /\ u.aiEnabled
                            THEN script ELSE ScriptDead
  /\ lastOp' = [op |-> "initialize", failure |-> failure]
  /\ UNCHANGED <<summarizeInFlight, summarizeInvocations, video, storage, opened,
                 answerRequests>>

\* window.aiToggleCallback without the test of videoElement.paused
AIToggleCallbackWhilePaused(a, enabled, v) ==
  enabled /\ a.videoElement /\ a.isRunning

\* window.aiToggleCallback(enabled): whether it calls updateQuestions
AIToggleCallback(a, enabled, v) ==
  enabled /\ a.videoElement /\ ~v.paused /\ a.isRunning

\* UIOverlay.toggleAI and the window.aiToggleCallback it notifies
ToggleAI ==
  /\ ui.overlay
  /\ LET u == ToggleAIState(ui)
         resumes == /\ assistant.toggleCallback
                    /\ AIToggleCallback(assistant, u.aiEnabled, video)
                    /\ assistant.isInitialized
     IN /\ storage' = IF u.aiEnabled THEN "true" ELSE "false"
        /\ ui' = IF assistant.toggleCallback /\ ~u.aiEnabled THEN Hide(u) ELSE u
        /\ lastStart' = IF resumes THEN CycleStart(assistant, u, video, "toggle")
                                   ELSE lastStart
        /\ lastOp' = [op |-> "toggleAI", enabled |-> u.aiEnabled, started |-> resumes]
  /\ script' = ScriptDead
  /\ UNCHANGED <<cacheVars, assistant, video, opened, answerRequests, cycles,
               fired>>

\* handleVideoNavigation
HandleVideoNavigation ==
  /\ assistant.isInitialized
  /\ assistant.listeners < MaxListeners
  /\ LET r == StartQuestionLoop(
                StopQuestionLoop([assistant EXCEPT !.lastTriggerTime = 0]), ui, video)
     IN /\ assistant' = r.assistant
        /\ lastStart' = IF r.started
                          THEN CycleStart(r.assistant, ui, video, "startQuestionLoop")
                          ELSE lastStart
        /\ fired' = NoneFired
        /\ lastOp' = [op |-> "handleVideoNavigation", started |-> r.started,
                      lastTriggerTime |-> assistant.lastTriggerTime,
                      currentSummary |-> summarizer.currentSummary]
  /\ summarizer' = ClearCache(summarizer)
  /\ script' = ScriptDead
  /\ UNCHANGED <<summarizeInFlight, summarizeInvocations, video, uiVars, cycles>>

SchedNext ==
  \/ \E f \in {"none", "ai", "subtitles"}, ok \in BOOLEAN : Initialize(f, ok)
  \/ \E t \in VideoTimes : TimeUpdate(t)
  \/ Pause
  \/ Play
  \/ PlayHideTimer
  \/ ToggleAI
  \/ HandleVideoNavigation

(***************************************************************************)
(* Specifications                                                          *)
(***************************************************************************)
\* no question was opened yet
NoWindow == [set |-> FALSE, startTime |-> Undefined, endTime |-> Undefined]

Init ==
  /\ summarizer = SummarizerConstructor
  /\ summarizeInFlight = <<>>
  /\ summarizeInvocations = 0
  /\ assistant = AssistantConstructor
  /\ video \in [exists : BOOLEAN, currentTime : {Sec(0)}, paused : BOOLEAN]
  /\ storage \in {"absent", "true", "false"}
  /\ opened = NoWindow
  /\ ui = UIOverlayConstructor
  /\ answerRequests = <<>>
  /\ lastStart = NoStart
  /\ cycles = <<>>
  /\ fired = NoneFired
  /\ script = [pos |-> 0, fires |-> <<>>]
  /\ lastOp = [op |-> "constructor"]

\* the summarizer client alone
SpecCache == Init /\ [][CacheNext]_vars

\* the trigger scheduler: initialize, position updates, play/pause, toggle, navigation
SpecSched == Init /\ [][SchedNext]_vars

(***************************************************************************)
(* The gate, the history log and the panel's fields                        *)
(***************************************************************************)
\* what the delivered cycles produced: a cycle started at 30 s with no question,
\* one started at 30 s with one, one started at 60 s with more than three
Generated == {[texts |-> <<>>, timestamp |-> Sec(30)],
              [texts |-> <<"Q1">>, timestamp |-> Sec(30)],
              [texts |-> <<"Q1", "Q2", "Q3", "Q4">>, timestamp |-> Sec(60)]}

\* questions.map(q => ({text, startTime: currentTime, endTime: currentTime + 30}))
QuestionData(texts, currentTime) ==
  [i \in 1..Len(texts) |->
     [text |-> texts[i], startTime |-> currentTime,
      endTime |-> currentTime + Sec(transcriptBufferAhead)]]

\* a cycle started at `timestamp` ends in this.uiOverlay.updateQuestions
Deliver(texts, timestamp) ==
  /\ assistant.isInitialized
  /\ Len(ui.questionHistory) < MaxHistory
  /\ ui' = UpdateQuestions(ui, QuestionData(texts, timestamp), timestamp)
  /\ lastOp' = [op |-> "updateQuestions", questions |-> QuestionData(texts, timestamp),
                timestamp |-> timestamp, from |-> ui.currentQuestionGroupIndex]
  /\ UNCHANGED <<cacheVars, schedVars, storage, opened, answerRequests>>

MouseEnter ==
  /\ ui.overlay /\ ~ui.isHovering
  /\ ui' = [ui EXCEPT !.isHovering = TRUE]
  /\ lastOp' = [op |-> "mouseenter"]
  /\ UNCHANGED <<cacheVars, schedVars, storage, opened, answerRequests>>

MouseLeave ==
  /\ ui.overlay /\ ui.isHovering
  /\ ui' = MouseLeaveHandler(ui)
  /\ lastOp' = [op |-> "mouseleave"]
  /\ UNCHANGED <<cacheVars, schedVars, storage, opened, answerRequests>>

Backward ==
  /\ ui.overlay
  /\ ui' = NavigateBackward(ui)
  /\ lastOp' = [op |-> "navigateBackward", from |-> ui.currentQuestionGroupIndex]
  /\ UNCHANGED <<cacheVars, schedVars, storage, opened, answerRequests>>

Forward ==
  /\ ui.overlay
  /\ ui' = NavigateForward(ui)
  /\ lastOp' = [op |-> "navigateForward", from |-> ui.currentQuestionGroupIndex]
  /\ UNCHANGED <<cacheVars, schedVars, storage, opened, answerRequests>>

\* the user clicks into the query field and types
TypeQuery ==
  /\ ui.questionsList.hasInput /\ ui.listDisplay # "none"
  /\ ui' = [ui EXCEPT !.queryInput = "typed", !.activeElement = "query"]
  /\ lastOp' = [op |-> "typeQuery"]
  /\ UNCHANGED <<cacheVars, schedVars, storage, opened, answerRequests>>

\* the user clicks into the follow-up field and types
TypeFollowUp ==
  /\ ui.chatbox
  /\ ui' = [ui EXCEPT !.followupInput = "more", !.activeElement = "followup"]
  /\ lastOp' = [op |-> "typeFollowUp"]
  /\ UNCHANGED <<cacheVars, schedVars, storage, opened, answerRequests>>

\* the focused field loses the focus
Blur ==
  /\ ui.activeElement # "body"
  /\ ui' = [ui EXCEPT !.activeElement = "body"]
  /\ lastOp' = [op |-> "blur"]
  /\ UNCHANGED <<cacheVars, schedVars, storage, opened, answerRequests>>

(***************************************************************************)
(* The conversation and its answer requests                                *)
(***************************************************************************)
\* the k-th element of the answer stream for a question: the full text so far
StreamChunk(question, k) == [j \in 1..k |-> <<question, j>>]

\* the onChunk callback of YouTubeAIAssistant.handleQuestionClick: fullAnswer += chunk
OnChunk(fullAnswer, chunk) == fullAnswer \o chunk

\* YouTubeAIAssistant.handleQuestionClick(question, index, startTime, endTime) up
\* to its first await: the overlay after it and the suspended call (pc "none"
\* when it returned at once)
AssistantQuestionClick(a, s, u, question, startTime, endTime) ==
  IF ~a.isInitialized
    THEN [ui |-> u, request |-> [pc |-> "none"]]
    ELSE [ui |-> ShowChatbox(u, question, Undefined, Undefined),
          request |-> [pc |-> IF s.initialized THEN "summaryText" ELSE "transcript",
                       question |-> question,
                       startTime |-> startTime, endTime |-> endTime,
                       chunks |-> 0, fullAnswer |-> <<>>, current |-> TRUE]]

\* the suspended calls once another conversation is opened or the open one is
\* closed: none of them belongs to the open conversation any more
Stale(requests) ==
  [k \in 1..Len(requests) |-> [requests[k] EXCEPT !.current = FALSE]]

\* UIOverlay.handleQuestionClick(question, index, startTime, endTime): showChatbox,
\* then this.onQuestionClick, which is (question, index) =>
\* this.handleQuestionClick(question, index) of YouTubeAIAssistant.initialize
OpenQuestion(u, question, startTime, endTime) ==
  AssistantQuestionClick(assistant, summarizer,
                         ShowChatbox(u, question, startTime, endTime),
                         question, Undefined, Undefined)

\* the user clicks the i-th question shown
QuestionClick(i) ==
  /\ ui.questionsList.kind = "group" /\ ui.listDisplay # "none"
  /\ i \in 1..Len(ui.questionsList.questions)
  /\ Len(answerRequests) < MaxRequests
  /\ LET q == ui.questionsList.questions[i]
         r == OpenQuestion(ui, q.text, q.startTime, q.endTime)
     IN /\ ui' = r.ui
        /\ answerRequests' = IF r.request.pc = "none" THEN Stale(answerRequests)
                             ELSE Append(Stale(answerRequests), r.request)
        /\ lastOp' = [op |-> "handleQuestionClick", question |-> q.text,
                      startTime |-> q.startTime, endTime |-> q.endTime]
        /\ opened' = [set |-> TRUE, startTime |-> q.startTime, endTime |-> q.endTime]
  /\ UNCHANGED <<cacheVars, schedVars, storage>>

\* handleSubmit of addUserQueryField: the user submits the query field
SubmitQuery ==
  /\ ui.questionsList.hasInput /\ ui.listDisplay # "none"
  /\ ui.queryInput # ""
  /\ Len(answerRequests) < MaxRequests
  /\ LET currentTime == IF video.exists THEN video.currentTime ELSE 0
         startTime == Max(0, currentTime - Sec(userQueryHalfWindow))
         endTime == currentTime + Sec(userQueryHalfWindow)
         r == OpenQuestion([ui EXCEPT !.queryInput = ""], ui.queryInput,
                           startTime, endTime)
     IN /\ ui' = r.ui
        /\ answerRequests' = IF r.request.pc = "none" THEN Stale(answerRequests)
                             ELSE Append(Stale(answerRequests), r.request)
        /\ lastOp' = [op |-> "handleQuestionClick", question |-> ui.queryInput,
                      startTime |-> startTime, endTime |-> endTime]
        /\ opened' = [set |-> TRUE, startTime |-> startTime, endTime |-> endTime]
  /\ UNCHANGED <<cacheVars, schedVars, storage>>

\* the close button of the chatbox
Close ==
  /\ ui.chatbox
  /\ ui' = CloseChatbox(ui)
  /\ answerRequests' = Stale(answerRequests)
  /\ lastOp' = [op |-> "closeChatbox"]
  /\ UNCHANGED <<cacheVars, schedVars, storage, opened>>

\* setFollowUpQuestionHandler(handler)
SetFollowUpQuestionHandler ==
  /\ ui.overlay /\ ~ui.onFollowUpQuestion
  /\ ui' = [ui EXCEPT !.onFollowUpQuestion = TRUE]
  /\ lastOp' = [op |-> "setFollowUpQuestionHandler"]
  /\ UNCHANGED <<cacheVars, schedVars, storage, opened, answerRequests>>

\* conversation turns kept
MaxTurns == 2

\* the send button of the chatbox: handleSendMessage
SendFollowUp ==
  /\ ui.chatbox
  /\ Len(ui.conversationHistory) < MaxTurns
  /\ ui' = HandleSendMessage(ui, ui.followupInput)
  /\ LET sent == ui.followupInput # "" /\ ~ui.isStreaming
         args == FollowUpArguments(ui, ui.followupInput, video.currentTime)
     IN lastOp' = [op |-> "handleSendMessage", sent |-> sent,
                   requested |-> sent /\ ui.onFollowUpQuestion,
                   message |-> args.message,
                   startTime |-> args.startTime, endTime |-> args.endTime]
  /\ UNCHANGED <<cacheVars, schedVars, storage, opened, answerRequests>>

\* await getTranscriptChunk(summaryStartTime, summaryEndTime) resolves and
\* getSummaryForTime runs up to its return or its await
AnswerSummaryText(i, text) ==
  /\ i \in 1..Len(answerRequests)
  /\ answerRequests[i].pc = "summaryText"
  /\ LET q == answerRequests[i]
         r == GetSummaryForTime(summarizer, text,
                                Minus(q.startTime, Sec(summaryBuffer)),
                                Plus(q.endTime, Sec(summaryBuffer)))
     IN /\ r.outcome = "invoked" => summarizeInvocations < MaxInvocations
        /\ summarizeInvocations' = IF r.outcome = "invoked"
                                     THEN summarizeInvocations + 1
                                     ELSE summarizeInvocations
        /\ answerRequests' =
             [answerRequests EXCEPT ![i].pc =
                IF r.outcome = "invoked" THEN "summarize" ELSE "transcript"]
        /\ lastOp' = [op |-> "answerSummaryText", outcome |-> r.outcome]
  /\ UNCHANGED <<summarizer, summarizeInFlight, schedVars, storage, opened, ui>>

\* await summarizer.summarize of the click handler's getSummaryForTime ends
AnswerSummarized(i, ok, summary) ==
  /\ i \in 1..Len(answerRequests)
  /\ answerRequests[i].pc = "summarize"
  /\ LET q == answerRequests[i] IN
     summarizer' = IF ok THEN CacheStore(summarizer, summary,
                                         Minus(q.startTime, Sec(summaryBuffer)),
                                         Plus(q.endTime, Sec(summaryBuffer)))
                         ELSE summarizer
  /\ answerRequests' = [answerRequests EXCEPT ![i].pc = "transcript"]
  /\ lastOp' = [op |-> "answerSummarized", ok |-> ok]
  /\ UNCHANGED <<summarizeInFlight, summarizeInvocations, schedVars, storage, opened,
                 ui>>

\* await getTranscriptChunk(startTime, endTime) resolves; generateAnswer is
\* called and awaits session.promptStreaming
AnswerTranscript(i) ==
  /\ i \in 1..Len(answerRequests)
  /\ answerRequests[i].pc = "transcript"
  /\ answerRequests' = [answerRequests EXCEPT ![i].pc = "streaming"]
  /\ lastOp' = [op |-> "answerTranscript"]
  /\ UNCHANGED <<cacheVars, schedVars, storage, opened, ui>>

\* a getTranscriptChunk of the click handler rejects: its catch block
AnswerContextFails(i) ==
  /\ i \in 1..Len(answerRequests)
  /\ answerRequests[i].pc \in {"summaryText", "transcript"}
  /\ ui' = FinishStreaming(UpdateChatboxContent(ui, SorryText), <<>>)
  /\ answerRequests' = RemoveAt(answerRequests, i)
  /\ lastOp' = [op |-> "answerContextFails", question |-> answerRequests[i].question]
  /\ UNCHANGED <<cacheVars, schedVars, storage, opened>>

\* the stream of request i yields its next element and
\* PromptClient.generateAnswer(question, videoSummary, onChunk) calls onChunk.
\* (The generateAnswer of ai/promptClient.js has a fourth parameter and takes
\* the callback for its videoFrame: linked with it, no such step happens and
\* the request goes from "streaming" to AnswerComplete at once.)
AnswerChunk(i) ==
  /\ i \in 1..Len(answerRequests)
  /\ answerRequests[i].pc = "streaming"
  /\ answerRequests[i].chunks < MaxChunks
  /\ LET q == answerRequests[i]
         chunk == StreamChunk(q.question, q.chunks + 1)
         fullAnswer == OnChunk(q.fullAnswer, chunk)
     IN /\ ui' = UpdateChatboxContent(ui, fullAnswer)
        /\ answerRequests' = [answerRequests EXCEPT ![i].chunks = @ + 1,
                                                    ![i].fullAnswer = fullAnswer]
        /\ lastOp' = [op |-> "answerChunk", question |-> q.question, chunk |-> chunk,
                      shown |-> fullAnswer]
  /\ UNCHANGED <<cacheVars, schedVars, storage, opened>>

\* generateAnswer returns (the stream ended, or it failed and the failure text
\* is returned and dropped): this.uiOverlay.finishStreaming()
AnswerComplete(i) ==
  /\ i \in 1..Len(answerRequests)
  /\ answerRequests[i].pc = "streaming"
  /\ ui' = FinishStreaming(ui, <<>>)
  /\ answerRequests' = RemoveAt(answerRequests, i)
  /\ lastOp' = [op |-> "answerComplete", question |-> answerRequests[i].question,
                chunks |-> answerRequests[i].chunks]
  /\ UNCHANGED <<cacheVars, schedVars, storage, opened>>

\* session.promptStreaming or the stream of request i throws: generateAnswer
\* catches it and returns the failure text, which handleQuestionClick does not
\* use; it goes on to this.uiOverlay.finishStreaming()
AnswerFails(i) ==
  /\ i \in 1..Len(answerRequests)
  /\ answerRequests[i].pc = "streaming"
  /\ ui' = FinishStreaming(ui, <<>>)
  /\ answerRequests' = RemoveAt(answerRequests, i)
  /\ lastOp' = [op |-> "answerFails", question |-> answerRequests[i].question]
  /\ UNCHANGED <<cacheVars, schedVars, storage, opened>>


(***************************************************************************)
(* YouTubeAIAssistant.updateQuestions: one generation cycle                *)
(***************************************************************************)
\* updateQuestions calls followed past their first await at the same time
MaxCycles == 2

\* the texts generateQuestions may resolve to: none, one, more than three
GeneratedTexts == {<<>>, <<"Q1">>, <<"Q1", "Q2", "Q3", "Q4">>}

\* the test of the transcript that treats only the empty string as empty
AfterTranscriptNoTrim(transcript, s, a) ==
  IF transcript = "" THEN "return"
  ELSE IF s.initialized /\ a.videoElement THEN "summaryText"
  ELSE "questions"

\* a cycle that gives up when the summarizer is not available
AfterTranscriptNeedsSummarizer(transcript, s, a) ==
  IF Trim(transcript) = "" \/ ~s.initialized THEN "return"
  ELSE IF a.videoElement THEN "summaryText"
  ELSE "questions"

\* where updateQuestions goes after await getTranscriptChunk(t, t + 30): it
\* returns, asks for the text of the summary window, or calls generateQuestions
AfterTranscript(transcript, s, a) ==
  IF Trim(transcript) = "" THEN "return"
  ELSE IF s.initialized /\ a.videoElement THEN "summaryText"
  ELSE "questions"

\* the cycles in flight after the i-th has handed its group to the panel: the
\* ones triggered before it have been overtaken
Overtake(cs, i) ==
  [j \in 1..(Len(cs) - 1) |->
     IF j < i THEN [cs[j] EXCEPT !.overtaken = TRUE] ELSE cs[j + 1]]

\* what a cycle hands to uiOverlay.updateQuestions, stamped with the position
\* of the video at that moment instead of the one read at its start
CycleCompletesAtVideoTime(c, v, texts) ==
  [questions |-> QuestionData(texts, v.currentTime), timestamp |-> v.currentTime]

\* what the cycle c hands to uiOverlay.updateQuestions when generateQuestions
\* resolves to texts while the video is in state v
CycleCompletes(c, v, texts) ==
  [questions |-> QuestionData(texts, c.currentTime), timestamp |-> c.currentTime]

\* await getTranscriptChunk(currentTime, currentTime + 30) resolves for the
\* latest call of updateQuestions; an earlier call still waiting there when a
\* later one started is not followed
CycleTranscript(transcript) ==
  /\ lastStart.set /\ lastStart.awaiting
  /\ LET next == AfterTranscript(transcript, summarizer, assistant)
     IN /\ next # "return" => Len(cycles) < MaxCycles
        /\ cycles' = IF next = "return" THEN cycles
                     ELSE Append(cycles, [currentTime |-> lastStart.t, pc |-> next,
                                          overtaken |-> FALSE, videoSummary |-> ""])
        /\ lastOp' = [op |-> "cycleTranscript", currentTime |-> lastStart.t,
                      transcript |-> transcript, next |-> next]
  /\ lastStart' = [lastStart EXCEPT !.awaiting = FALSE]
  /\ UNCHANGED <<cacheVars, uiVars, assistant, video, fired, script>>

\* await getTranscriptChunk(t - 150, t + 150) resolves for the i-th cycle, which
\* calls getSummaryForTime and, unless that reaches summarizer.summarize, goes
\* on to generateQuestions
CycleSummaryText(i, text) ==
  /\ i \in 1..Len(cycles) /\ cycles[i].pc = "summaryText"
  /\ LET w == SummaryWindow(cycles[i].currentTime)
         r == GetSummaryForTime(summarizer, text, w.start, w.end)
     IN /\ r.outcome = "invoked" => summarizeInvocations < MaxInvocations
        /\ summarizeInvocations' = IF r.outcome = "invoked"
                                     THEN summarizeInvocations + 1
                                     ELSE summarizeInvocations
        /\ cycles' = [cycles EXCEPT ![i].pc = IF r.outcome = "invoked"
                                                THEN "summarize" ELSE "questions",
                                     ![i].videoSummary = IF r.outcome = "invoked"
                                                           THEN @ ELSE r.returned]
        /\ lastOp' = [op |-> "cycleSummaryText", currentTime |-> cycles[i].currentTime,
                      text |-> text, outcome |-> r.outcome, returned |-> r.returned]
  /\ UNCHANGED <<summarizer, summarizeInFlight, uiVars, assistant, video, lastStart,
                 fired, script>>

\* await summarizer.summarize resolves (ok) or rejects for the i-th cycle
CycleSummarized(i, ok, summary) ==
  /\ i \in 1..Len(cycles) /\ cycles[i].pc = "summarize"
  /\ LET w == SummaryWindow(cycles[i].currentTime)
     IN /\ summarizer' = IF ok THEN CacheStore(summarizer, summary, w.start, w.end)
                               ELSE summarizer
        /\ lastOp' = [op |-> "cycleSummarized", currentTime |-> cycles[i].currentTime,
                      start |-> w.start, end |-> w.end,
                      returned |-> IF ok THEN summary ELSE ""]
  /\ cycles' = [cycles EXCEPT ![i].pc = "questions",
                               ![i].videoSummary = IF ok THEN summary ELSE ""]
  /\ UNCHANGED <<summarizeInFlight, summarizeInvocations, uiVars, assistant, video,
                 lastStart, fired, script>>

\* await generateQuestions resolves for the i-th cycle, which hands its group
\* to uiOverlay.updateQuestions
CycleQuestions(i, texts) ==
  /\ i \in 1..Len(cycles) /\ cycles[i].pc = "questions"
  /\ Len(ui.questionHistory) < MaxHistory
  /\ LET d == CycleCompletes(cycles[i], video, texts)
     IN /\ ui' = UpdateQuestions(ui, d.questions, d.timestamp)
        /\ lastOp' = [op |-> "cycleQuestions", currentTime |-> cycles[i].currentTime,
                      questions |-> d.questions, timestamp |-> d.timestamp,
                      overtaken |-> cycles[i].overtaken,
                      videoSummary |-> cycles[i].videoSummary]
  /\ cycles' = Overtake(cycles, i)
  /\ UNCHANGED <<cacheVars, storage, opened, answerRequests, assistant, video,
                 lastStart, fired, script>>

\* one of the awaits of the i-th cycle rejects: the catch block shows the error
CycleFails(i) ==
  /\ i \in 1..Len(cycles)
  /\ ui' = ShowError(ui, "Failed to generate questions")
  /\ cycles' = RemoveAt(cycles, i)
  /\ lastOp' = [op |-> "cycleFails", currentTime |-> cycles[i].currentTime]
  /\ UNCHANGED <<cacheVars, storage, opened, answerRequests, assistant, video,
                 lastStart, fired, script>>
\* the playback position (ticks) the clock jumps to during a conversation: 500 s
ConversationClock == {Sec(500)}

\* the panel: deliveries against hovering, typing, navigating and conversations
GateNext ==
  \/ Initialize("none", FALSE)
  \/ \E g \in Generated : Deliver(g.texts, g.timestamp)
  \/ MouseEnter
  \/ MouseLeave
  \/ Backward
  \/ Forward
  \/ TypeQuery
  \/ Blur
  \/ QuestionClick(1)
  \/ Close
  \/ \E i \in 1..MaxRequests : AnswerContextFails(i)
  \/ ToggleAI

\* the conversation: questions, follow-ups, answer streams and the clock
ChatNext ==
  \/ Initialize("none", FALSE)
  \/ \E t \in ConversationClock : TimeUpdate(t)
  \/ Len(ui.questionHistory) = 0 /\ Deliver(<<"Q1", "Q2", "Q3", "Q4">>, Sec(60))
  \/ QuestionClick(1)
  \/ TypeQuery
  \/ SubmitQuery
  \/ Close
  \/ SetFollowUpQuestionHandler
  \/ TypeFollowUp
  \/ SendFollowUp
  \/ \E i \in 1..MaxRequests : AnswerTranscript(i)
  \/ \E i \in 1..MaxRequests : AnswerContextFails(i)
  \/ \E i \in 1..MaxRequests : AnswerChunk(i)
  \/ \E i \in 1..MaxRequests : AnswerComplete(i)
  \/ \E i \in 1..MaxRequests : AnswerFails(i)


\* playback positions (ticks) the clock reports during generation: the
\* boundary at 30 s, and 45 s
CycleClock == {Sec(30), Sec(45)}

\* the generation cycles: triggers, their awaits and the pointer over the panel
CycleNext ==
  \/ \E ok \in BOOLEAN : Initialize("none", ok)
  \/ \E t \in CycleClock : TimeUpdate(t)
  \/ \E text \in Transcripts : CycleTranscript(text)
  \/ \E i \in 1..MaxCycles, text \in Transcripts : CycleSummaryText(i, text)
  \/ \E i \in 1..MaxCycles, ok \in BOOLEAN, s \in Summaries : CycleSummarized(i, ok, s)
  \/ \E i \in 1..MaxCycles, texts \in GeneratedTexts : CycleQuestions(i, texts)
  \/ \E i \in 1..MaxCycles : CycleFails(i)
  \/ MouseEnter
  \/ MouseLeave

\* navigation to another video while cycles are in flight
NavigationNext ==
  \/ Initialize("none", TRUE)
  \/ TimeUpdate(Sec(30))
  \/ CycleTranscript("speaker discusses gravity")
  \/ \E i \in 1..MaxCycles : CycleSummaryText(i, "speaker discusses gravity")
  \/ \E i \in 1..MaxCycles : CycleSummarized(i, TRUE, "S1")
  \/ \E i \in 1..MaxCycles : CycleQuestions(i, <<"Q1", "Q2">>)
  \/ \E i \in 1..MaxCycles : CycleFails(i)
  \/ HandleVideoNavigation

(***************************************************************************)
(* PromptClient.parseQuestions: text is a sequence of characters           *)
(***************************************************************************)
Quotes == {"\"", "'"}
DecimalDigits == {"1", "2"}

RECURSIVE TrimStart(_)
TrimStart(s) == IF s # <<>> /\ Head(s) = " " THEN TrimStart(Tail(s)) ELSE s

RECURSIVE TrimEnd(_)
TrimEnd(s) ==
  IF s # <<>> /\ s[Len(s)] = " " THEN TrimEnd(SubSeq(s, 1, Len(s) - 1)) ELSE s

\* String.prototype.trim on a sequence of characters
TrimText(s) == TrimEnd(TrimStart(s))

\* line.includes(c)
Includes(s, c) == \E k \in 1..Len(s) : s[k] = c

\* how many decimal digits the text starts with
RECURSIVE LeadingDigits(_)
LeadingDigits(s) ==
  IF s # <<>> /\ Head(s) \in DecimalDigits THEN 1 + LeadingDigits(Tail(s)) ELSE 0

\* /^\d+\./.test(line)
IsNumbered(line) ==
  LET d == LeadingDigits(line)
  IN d > 0 /\ Len(line) > d /\ line[d + 1] = "."

\* line.replace(/^\d+\.\s*/, '')
StripNumber(line) ==
  IF IsNumbered(line)
    THEN TrimStart(SubSeq(line, LeadingDigits(line) + 2, Len(line)))
    ELSE line

\* .replace(/\\"/g, '"').replace(/\\'/g, "'")
RECURSIVE Unescape(_)
Unescape(s) ==
  IF s = <<>> THEN <<>>
  ELSE IF Len(s) > 1 /\ s[1] = "\\" /\ s[2] \in Quotes
         THEN <<s[2]>> \o Unescape(SubSeq(s, 3, Len(s)))
         ELSE <<s[1]>> \o Unescape(Tail(s))

\* cleanQuestionString(question)
CleanQuestionString(question) ==
  LET trimmed == TrimText(question)
      opened1 == IF trimmed # <<>> /\ Head(trimmed) \in Quotes
                   THEN Tail(trimmed) ELSE trimmed
      n == Len(opened1)
      closed == IF n > 1 /\ opened1[n] = "," /\ opened1[n - 1] \in Quotes
                  THEN SubSeq(opened1, 1, n - 2)
                ELSE IF n > 0 /\ opened1[n] \in Quotes
                  THEN SubSeq(opened1, 1, n - 1)
                ELSE opened1
  IN TrimText(Unescape(closed))

\* parseQuestions(response): response.json says that JSON.parse succeeded with
\* an object whose `questions` is an array (response.questions); response.lines
\* is response.split('\n')
ParseQuestions(response) ==
  IF response.json
    THEN [k \in 1..Len(response.questions) |-> CleanQuestionString(response.questions[k])]
    ELSE LET NonBlank(line) == Len(TrimText(line)) > 0
             Candidate(line) == Includes(line, "?") \/ IsNumbered(line)
             NonEmpty(q) == Len(q) > 0
             lines == SelectSeq(response.lines, NonBlank)
             candidates == SelectSeq(lines, Candidate)
             cleaned == [k \in 1..Len(candidates) |->
                           CleanQuestionString(TrimText(StripNumber(candidates[k])))]
         IN Slice(SelectSeq(cleaned, NonEmpty), 3)

\* lines and array elements the language model writes
MaxLines == 4
MaxItems == 4
RawLines == { <<"Q", "?">>, <<"1", ".", " ", "Q">>, <<"Q">>, <<" ">>,
              <<"\"", "Q", "\\", "'", "s", "?", "\"", ",">>, <<"2", ".", " ">> }
RawItems == { <<"Q", "?">>, <<" ", "'", "Q", "?", "'">> }

SeqsUpTo(S, n) == UNION {[1..k -> S] : k \in 0..n}

\* what this.session.prompt(textPrompt, {responseConstraint}) resolves to
Responses ==
  {[json |-> TRUE, questions |-> qs, lines |-> <<>>] : qs \in SeqsUpTo(RawItems, MaxItems)}
    \cup {[json |-> FALSE, questions |-> <<>>, lines |-> ls] : ls \in SeqsUpTo(RawLines, MaxLines)}

\* generateQuestions once the prompt has resolved: const questions =
\* this.parseQuestions(response); return questions
PromptResolves ==
  /\ lastOp.op = "prompt"
  /\ lastOp' = [op |-> "generateQuestions", response |-> lastOp.response,
                questions |-> ParseQuestions(lastOp.response)]
  /\ UNCHANGED <<cacheVars, uiVars, schedVars>>

ParseNext == PromptResolves

(***************************************************************************)
(* setupPlayerControlsWatcher: the pointer over the player                 *)
(***************************************************************************)
\* isVideoPaused()
IsVideoPaused(v) == IF v.exists THEN v.paused ELSE FALSE

\* handleMouseMove (mousemove and mouseenter on the player): show, and arm the
\* 3 s timer again
PlayerMouseMove ==
  /\ ui.overlay
  /\ ui' = [Show(ui) EXCEPT !.mouseMoveTimeout = TRUE]
  /\ lastOp' = [op |-> "playerMouseMove"]
  /\ UNCHANGED <<cacheVars, schedVars, storage, opened, answerRequests>>

\* the 3 s timer of handleMouseMove fires
PlayerMouseMoveTimer ==
  /\ ui.mouseMoveTimeout
  /\ ui' = [(IF ~IsVideoPaused(video) THEN Hide(ui) ELSE ui)
              EXCEPT !.mouseMoveTimeout = FALSE]
  /\ lastOp' = [op |-> "mouseMoveTimer", hide |-> ~IsVideoPaused(video)]
  /\ UNCHANGED <<cacheVars, schedVars, storage, opened, answerRequests>>

\* the mouseleave listener of the player
PlayerMouseLeave ==
  /\ ui.overlay
  /\ ui' = IF ~IsVideoPaused(video) THEN Hide(ui) ELSE ui
  /\ lastOp' = [op |-> "playerMouseLeave", hide |-> ~IsVideoPaused(video)]
  /\ UNCHANGED <<cacheVars, schedVars, storage, opened, answerRequests>>

\* the visibility of the overlay: the player's pointer and play/pause events
\* and the toggle against typing and conversations
VisibilityNext ==
  \/ Initialize("none", FALSE)
  \/ Len(ui.questionHistory) = 0 /\ Deliver(<<"Q1">>, Sec(30))
  \/ Pause
  \/ Play
  \/ PlayHideTimer
  \/ PlayerMouseMove
  \/ PlayerMouseMoveTimer
  \/ PlayerMouseLeave
  \/ ToggleAI
  \/ TypeQuery
  \/ Blur
  \/ QuestionClick(1)
  \/ Close
  \/ TypeFollowUp
  \/ \E i \in 1..MaxRequests : AnswerTranscript(i)
  \/ \E i \in 1..MaxRequests : AnswerComplete(i)

\* the answer streams: conversations opened and closed against the awaits of
\* their click handlers
StreamNext ==
  \/ Initialize("none", FALSE)
  \/ Len(ui.questionHistory) = 0 /\ Deliver(<<"Q1", "Q2">>, Sec(30))
  \/ \E k \in 1..2 : QuestionClick(k)
  \/ Close
  \/ TypeFollowUp
  \/ SendFollowUp
  \/ \E i \in 1..MaxRequests : AnswerTranscript(i)
  \/ \E i \in 1..MaxRequests : AnswerContextFails(i)
  \/ \E i \in 1..MaxRequests : AnswerChunk(i)
  \/ \E i \in 1..MaxRequests : AnswerComplete(i)
  \/ \E i \in 1..MaxRequests : AnswerFails(i)

\* an await of a click handler ends: the transcript arrives or fails, the
\* answer completes or fails
AnswerEnds ==
  \E i \in 1..MaxRequests :
    \/ AnswerTranscript(i)
    \/ AnswerContextFails(i)
    \/ AnswerComplete(i)
    \/ AnswerFails(i)

\* assistant instances the page creates one after the other
MaxInstances == 2

\* initializeAssistant on a navigation to another watch page: the instance is
\* destroyed (its overlay and its summarizer with it) and a new one is created,
\* on which initialize is then called; the calls of updateQuestions the
\* destroyed instance has in flight are not followed
InitializeAssistant ==
  /\ assistant.initializeCalled
  /\ Len(assistant.orphans) < MaxInstances - 1
  /\ assistant' = [AssistantConstructor EXCEPT
                     !.orphans = Append(assistant.orphans, Destroy(assistant))]
  /\ summarizer' = SummarizerConstructor
  /\ ui' = UIOverlayConstructor
  /\ lastStart' = NoStart
  /\ cycles' = <<>>
  /\ fired' = NoneFired
  /\ script' = ScriptDead
  /\ lastOp' = [op |-> "initializeAssistant"]
  /\ UNCHANGED <<summarizeInFlight, summarizeInvocations, video, storage, opened,
                 answerRequests>>

\* playback positions (ticks) around the boundaries: 30 s, 30.5 s, 60 s
RestartClock == {Sec(30), Sec(30) + 1, Sec(60)}

\* the question loop restarted by navigations and by new instances
RestartNext ==
  \/ \E f \in {"none", "subtitles"} : Initialize(f, TRUE)
  \/ \E t \in RestartClock : TimeUpdate(t)
  \/ HandleVideoNavigation
  \/ InitializeAssistant
  \/ ToggleAI

\* the toggle against the generation cycles in flight and the pointer
DisableNext ==
  \/ Initialize("none", FALSE)
  \/ TimeUpdate(Sec(30))
  \/ CycleTranscript("speaker discusses gravity")
  \/ \E i \in 1..MaxCycles : CycleQuestions(i, <<"Q1">>)
  \/ MouseEnter
  \/ MouseLeave
  \/ ToggleAI
\* a watch page with a playing video and no saved preference
PlayingInit == Init /\ video.exists /\ ~video.paused /\ storage = "absent"

\* the gate and the history log
SpecGate == PlayingInit /\ [][GateNext]_vars

\* the conversation and its answer requests
SpecChat == PlayingInit /\ [][ChatNext]_vars


\* the generation cycles, the cache they write and the groups they deliver
SpecCycle == PlayingInit /\ [][CycleNext]_vars

\* navigation to another video, with the cycles, the cache and the history log
SpecNavigation == PlayingInit /\ [][NavigationNext]_vars

\* a watch page where the question prompt of a cycle has just resolved
ParseInit ==
  /\ summarizer = SummarizerConstructor
  /\ summarizeInFlight = <<>>
  /\ summarizeInvocations = 0
  /\ assistant = AssistantConstructor
  /\ video = [exists |-> TRUE, currentTime |-> Sec(0), paused |-> FALSE]
  /\ storage = "absent"
  /\ opened = NoWindow
  /\ ui = UIOverlayConstructor
  /\ answerRequests = <<>>
  /\ lastStart = NoStart
  /\ cycles = <<>>
  /\ fired = NoneFired
  /\ script = [pos |-> 0, fires |-> <<>>]
  /\ lastOp \in {[op |-> "prompt", response |-> r] : r \in Responses}

\* the parse of what the language model answers to the question prompt
SpecParse == ParseInit /\ [][ParseNext]_vars

\* when the overlay is visible
SpecVisibility == PlayingInit /\ [][VisibilityNext]_vars

\* the answer streams, where every await of a click handler ends
SpecStream == PlayingInit /\ [][StreamNext]_vars /\ WF_vars(AnswerEnds)

\* the question loop across navigations and instances
SpecRestart == PlayingInit /\ [][RestartNext]_vars

\* the feature turned off and on while cycles are in flight
SpecDisable == PlayingInit /\ [][DisableNext]_vars
(***************************************************************************)
(* C1 - cache validity                                                     *)
(***************************************************************************)
\* midpoint(W) <= bound, with midpoint(W) = (start + end)/2
MidpointAtMost(windowStart, windowEnd, bound) == windowStart + windowEnd <= 2 * bound

\* C1: when the cache holds a (non-empty) summary for W1 and the summarizer is
\* ready, a request for W2 with a non-empty transcript returns the cached
\* summary without invoking the summarizer if midpoint(W2) <= W1.end, and
\* invokes the summarizer (once) if midpoint(W2) > W1.end.
C1_CacheValidity ==
  [][ ( /\ lastOp'.op = "getSummaryForTime"
        /\ summarizer.initialized
        /\ Truthy(summarizer.currentSummary)
        /\ Trim(lastOp'.text) # "" )
      => IF MidpointAtMost(lastOp'.start, lastOp'.end,
                           summarizer.currentSummaryTimeRange.end)
           THEN /\ lastOp'.outcome = "cached"
                /\ lastOp'.returned = summarizer.currentSummary
                /\ summarizeInvocations' = summarizeInvocations
           ELSE /\ lastOp'.outcome = "invoked"
                /\ summarizeInvocations' = summarizeInvocations + 1 ]_vars

C10_NoStartPausedOrDisabled ==
  lastStart.set => (~lastStart.paused /\ lastStart.enabled)

\* C10 amended: no cycle starts while the feature is disabled, whatever the
\* trigger, and none is started by a position update or by a toggle while the
\* video is paused; the initial update of startQuestionLoop is not held back
\* by a paused video.
C10_NoStartDisabledNorPausedFire ==
  lastStart.set =>
    /\ lastStart.enabled
    /\ lastStart.by \in {"timeupdate", "toggle"} => ~lastStart.paused

\* a boundary second is reached while paused, in a running loop with the
\* feature enabled, and the update started nothing
C10_Witness ==
  /\ lastOp.op = "timeupdate" /\ lastOp.started = 0
  /\ video.paused /\ ui.aiEnabled /\ assistant.isRunning /\ assistant.videoElement
  /\ Floor(video.currentTime) = 30 /\ assistant.lastTriggerTime # 30

(***************************************************************************)
(* Streaming, the gate, the history log and the conversation               *)
(***************************************************************************)
\* C3: after each chunk of an answer request, the text passed to
\* updateChatboxContent (and kept by the click handler as the answer so far) is
\* exactly that chunk, and it is the text shown while the chatbox is visible
C3_StreamingAccumulation ==
  lastOp.op = "answerChunk"
    => /\ lastOp.shown = lastOp.chunk
       /\ (ui.chatbox /\ ui.isChatboxVisible) => ui.answerBlock.text = lastOp.chunk

\* the interactive states: the pointer hovers the panel, a field of the panel
\* has the focus, an answer is streaming, or the conversation view is open
Interactive(u) ==
  \/ u.isHovering
  \/ u.activeElement # "body"
  \/ u.isStreaming
  \/ u.isChatboxVisible

\* the pending slot holding the group of the last updateQuestions call
PendingOfLastCall(op) ==
  [set |-> TRUE, questions |-> op.questions, timestamp |-> op.timestamp]

\* C4: a group delivered while the UI is interactive is neither appended nor
\* rendered and becomes the only pending group (a later one replaces it); when
\* the interaction ends, exactly the pending group is appended, the cursor is on
\* it, and the pending slot is empty
C4_GateDeferral ==
  /\ [][ (lastOp'.op = "updateQuestions" /\ Interactive(ui))
         => /\ ui'.questionHistory = ui.questionHistory
            /\ ui'.questionsList = ui.questionsList
            /\ ui'.pendingQuestions = PendingOfLastCall(lastOp') ]_vars
  /\ [][ (Interactive(ui) /\ ~Interactive(ui') /\ ui.pendingQuestions.set)
         => /\ ui'.questionHistory =
                 Append(ui.questionHistory,
                        [questions |-> ui.pendingQuestions.questions,
                         timestamp |-> ui.pendingQuestions.timestamp])
            /\ ui'.currentQuestionGroupIndex = Len(ui.questionHistory)
            /\ ~ui'.pendingQuestions.set ]_vars

\* C5: in every interactive state a call of updateQuestions only stores the
\* group as pending: the history log, the rendered list and the text typed in
\* the query field stay as they are
C5_DeliveryBlocked ==
  [][ (lastOp'.op = "updateQuestions" /\ Interactive(ui))
      => ui' = [ui EXCEPT !.pendingQuestions = PendingOfLastCall(lastOp')] ]_vars

\* C6: while the conversation opened with window [s,e] is open its context is
\* [s,e], and every follow-up request it issues carries [s,e], wherever the
\* playback position is
C6_ContextAnchoring ==
  /\ (ui.chatbox /\ opened.set)
       => ui.conversationContext = Context(opened.startTime, opened.endTime)
  /\ (lastOp.op = "handleSendMessage" /\ lastOp.requested)
       => /\ lastOp.startTime = opened.startTime
          /\ lastOp.endTime = opened.endTime

\* C7: navigateBackward at cursor 0 (or on the empty log) and navigateForward
\* at the last index change nothing; otherwise they move the cursor by one and
\* keep the log; every step that appends a group appends one and leaves the
\* cursor on the new last index
C7_NavigationBounds ==
  /\ [][ lastOp'.op = "navigateBackward"
         => IF ui.currentQuestionGroupIndex <= 0
              THEN ui' = ui
              ELSE /\ ui'.currentQuestionGroupIndex = ui.currentQuestionGroupIndex - 1
                   /\ ui'.questionHistory = ui.questionHistory ]_vars
  /\ [][ lastOp'.op = "navigateForward"
         => IF ui.currentQuestionGroupIndex >= Len(ui.questionHistory) - 1
              THEN ui' = ui
              ELSE /\ ui'.currentQuestionGroupIndex = ui.currentQuestionGroupIndex + 1
                   /\ ui'.questionHistory = ui.questionHistory ]_vars
  /\ [][ ui'.questionHistory # ui.questionHistory
         => /\ Len(ui'.questionHistory) = Len(ui.questionHistory) + 1
            /\ SubSeq(ui'.questionHistory, 1, Len(ui.questionHistory))
                 = ui.questionHistory
            /\ ui'.currentQuestionGroupIndex = Len(ui'.questionHistory) - 1 ]_vars

\* a group was appended while the cursor was on the first of two groups
C7_Witness ==
  /\ lastOp.op = "updateQuestions"
  /\ lastOp.from = 0
  /\ Len(ui.questionHistory) = 3
  /\ ui.currentQuestionGroupIndex = 2

\* C8: once the chatbox is closed, a chunk, the completion or the failure of a
\* request still in flight leaves the turns empty, the context null and the
\* visible text as it is
C8_TeardownIsCancellation ==
  [][ (~ui.chatbox
       /\ lastOp'.op \in {"answerChunk", "answerComplete", "answerContextFails"})
      => /\ ui'.conversationHistory = <<>>
         /\ ui'.conversationContext = NullContext
         /\ ui'.answerBlock = ui.answerBlock
         /\ ui'.questionBlock = ui.questionBlock
         /\ ui'.questionsList = ui.questionsList
         /\ ui'.listDisplay = ui.listDisplay
         /\ ~ui'.chatbox ]_vars

\* the second chunk of a request arrived after its chatbox was closed
C8_Witness ==
  /\ lastOp.op = "answerChunk"
  /\ Len(lastOp.chunk) = 2
  /\ ~ui.chatbox
  /\ ui.conversationHistory = <<>>
  /\ ui.answerBlock = NoBlock

\* C9: while the conversation of one question is open, a chunk or the
\* completion of the request of another, earlier question changes neither the
\* answer text shown, nor the turns, nor the streaming flag
C9_NewQuestionTearsDown ==
  [][ ( /\ lastOp'.op \in {"answerChunk", "answerComplete"}
        /\ ui.chatbox
        /\ lastOp'.question # ui.conversationHistory[1].content )
      => /\ ui'.answerBlock = ui.answerBlock
         /\ ui'.conversationHistory = ui.conversationHistory
         /\ ui'.isStreaming = ui.isStreaming ]_vars


(***************************************************************************)
(* Claims about the boundary scheduler and the feature toggle              *)
(***************************************************************************)

\* playback is active, the feature is enabled and the question loop runs
Active ==
  /\ assistant.isInitialized /\ assistant.isRunning /\ assistant.videoElement
  /\ ~video.paused /\ ui.aiEnabled

\* C11 as stated: each interval boundary second starts exactly one generation
\* cycle, so a position update never starts a cycle at a boundary second at
\* which an earlier position update has already started one
C11_OneFirePerBoundary ==
  [][lastOp'.op = "timeupdate" /\ lastOp'.started > 0
       => Floor(lastOp'.t) \notin fired.all]_vars

\* C11 amended: a position update starts at most one generation cycle, and it
\* starts one exactly when playback is active, the feature is enabled and the
\* second reached is a positive multiple of the interval other than the
\* boundary second that fired last; repeated updates within that second and a
\* reversal that comes back to it before another boundary fired start none,
\* while a boundary that fired earlier fires again once another one has fired
\* in between
C11_OneFirePerBoundaryVisit ==
  [][lastOp'.op = "timeupdate"
       => /\ lastOp'.started <= 1
          /\ lastOp'.started = 1
               <=> /\ Active
                   /\ Floor(lastOp'.t) > 0
                   /\ Floor(lastOp'.t) % questionGenerationInterval = 0
                   /\ Floor(lastOp'.t) # fired.last]_vars

\* the clock went 30, 60 and back to 30, and the update at 30 started a cycle
C11_Witness ==
  /\ lastOp.op = "timeupdate" /\ lastOp.started = 1
  /\ fired = [all |-> {30, 60}, last |-> 30]


\* C12: re-enabling the feature while the video is playing and the question
\* loop is running starts a generation cycle in the same step, at the current
\* playback position whatever its distance to the next interval boundary;
\* re-enabling while the video is paused starts none
C12_ReenableStartsAtOnce ==
  [][lastOp'.op = "toggleAI" /\ lastOp'.enabled
       => /\ (/\ assistant.isInitialized /\ assistant.isRunning
              /\ assistant.videoElement /\ ~video.paused)
               => /\ lastOp'.started
                  /\ lastStart' = [set |-> TRUE, t |-> video.currentTime,
                                   by |-> "toggle", paused |-> FALSE,
                                   enabled |-> TRUE, awaiting |-> TRUE]
          /\ video.paused => ~lastOp'.started /\ lastStart' = lastStart]_vars

\* the feature was re-enabled at 31 s, between two boundaries, and a cycle
\* started there
C12_Witness ==
  /\ lastOp.op = "toggleAI" /\ lastOp.enabled /\ lastOp.started
  /\ lastStart.by = "toggle" /\ lastStart.t = Sec(31) /\ video.currentTime = Sec(31)

(***************************************************************************)
(* Claims about the single-slot summary cache                              *)
(***************************************************************************)

\* C15: when a request for window W on a ready summarizer yields the empty
\* summary because the transcript is empty or blank, the cache afterwards
\* holds the empty content for W
C15_EmptyResultCached ==
  [][ ( /\ lastOp'.op = "getSummaryForTime"
        /\ summarizer.initialized
        /\ Trim(lastOp'.text) = ""
        /\ lastOp'.outcome # "cached" )
      => /\ lastOp'.returned = ""
         /\ summarizer'.currentSummary = ""
         /\ summarizer'.currentSummaryTimeRange =
              [start |-> lastOp'.start, end |-> lastOp'.end] ]_vars

\* C17: whenever a summary generation completes, also while or after another
\* one overlapped with it, the cache slot holds the content and the window of
\* that call, the one that completed last
C17_LastWriterWins ==
  lastOp.op = "summarizeResolved"
    => /\ summarizer.currentSummary = lastOp.returned
       /\ summarizer.currentSummaryTimeRange =
            [start |-> lastOp.start, end |-> lastOp.end]

\* two generations overlapped (the entry of the one that completed first would
\* have answered the other had it been requested later): the one that
\* completed last replaced the entry of the other, and the slot holds its own
C17_Witness ==
  /\ lastOp.op = "summarizeResolved"
  /\ summarizeInvocations = 2 /\ summarizeInFlight = <<>>
  /\ lastOp.replaced = [currentSummary |-> "S2",
                        currentSummaryTimeRange |-> SummaryWindow(Sec(600))]
  /\ summarizer.currentSummary = "S1"
  /\ summarizer.currentSummaryTimeRange = SummaryWindow(Sec(0))

\* C18: the cached content and the cached window always change together: a
\* step that changes either of them is the completion of one generation call
\* and writes that call's summary and that call's window, or it empties both;
\* the content is null exactly when the window is {-1,-1}, also while other
\* generations are suspended
C18_AtomicReplacement ==
  [][ /\ (summarizer'.currentSummary = NullSummary
            <=> summarizer'.currentSummaryTimeRange = EmptyRange)
      /\ ( \/ summarizer'.currentSummary # summarizer.currentSummary
           \/ summarizer'.currentSummaryTimeRange # summarizer.currentSummaryTimeRange )
         => \/ /\ lastOp'.op = "summarizeResolved"
               /\ summarizer'.currentSummary = lastOp'.returned
               /\ summarizer'.currentSummaryTimeRange =
                    [start |-> lastOp'.start, end |-> lastOp'.end]
            \/ /\ summarizer'.currentSummary = NullSummary
               /\ summarizer'.currentSummaryTimeRange = EmptyRange ]_vars

\* a generation has written its summary and its window while another call,
\* for another window, is still suspended
C18_Witness ==
  /\ lastOp.op = "summarizeResolved"
  /\ summarizer.currentSummary = "S1"
  /\ summarizer.currentSummaryTimeRange = SummaryWindow(Sec(0))
  /\ Len(summarizeInFlight) = 1
  /\ summarizeInFlight[1].end # summarizer.currentSummaryTimeRange.end

(***************************************************************************)
(* Claims about the generation cycle                                       *)
(***************************************************************************)

\* C13: a call of updateQuestions reads the playback position t when it starts;
\* the cycle carries that t through its awaits, and what it hands to the gate
\* is stamped t, with every question annotated [t, t + transcriptBufferAhead],
\* whatever the position of the video when the cycle completes; the gate keeps
\* the stamp in the pending slot or in the group it appends to the log
C13_GroupStampedAtStart ==
  [][ /\ (lastStart' # lastStart /\ lastStart'.awaiting)
         => lastStart'.t = video'.currentTime
      /\ (lastOp'.op = "cycleTranscript" /\ lastOp'.next # "return")
         => /\ Len(cycles') = Len(cycles) + 1
            /\ cycles'[Len(cycles')].currentTime = lastStart.t
      /\ lastOp'.op = "cycleQuestions"
         => \E i \in 1..Len(cycles) :
              LET t == cycles[i].currentTime
                  group == [questions |-> lastOp'.questions, timestamp |-> t]
              IN /\ cycles[i].pc = "questions"
                 /\ cycles' = Overtake(cycles, i)
                 /\ lastOp'.timestamp = t
                 /\ \A k \in 1..Len(lastOp'.questions) :
                      /\ lastOp'.questions[k].startTime = t
                      /\ lastOp'.questions[k].endTime = t + Sec(transcriptBufferAhead)
                 /\ ui.isHovering
                      => ui'.pendingQuestions =
                           [set |-> TRUE, questions |-> group.questions,
                            timestamp |-> t]
                 /\ (~ui.isHovering /\ Len(lastOp'.questions) > 0)
                      => ui'.questionHistory[Len(ui'.questionHistory)] = group ]_vars

\* the cycle started at 30 s completed when the video was at 45 s: its group is
\* in the log, stamped 30 s, each question with the window [30 s, 60 s]
C13_Witness ==
  /\ lastOp.op = "cycleQuestions" /\ lastOp.timestamp = Sec(30)
  /\ video.currentTime = Sec(45)
  /\ Len(lastOp.questions) > 0
  /\ lastOp.questions[1].startTime = Sec(30) /\ lastOp.questions[1].endTime = Sec(60)
  /\ Len(ui.questionHistory) > 0
  /\ ui.questionHistory[Len(ui.questionHistory)].timestamp = Sec(30)

\* C14: when the transcript of [t, t + 30] is empty or blank the cycle ends
\* there: it asks for no summary and no questions (no cycle goes on), it hands
\* nothing to the gate and shows no error (the panel, its pending slot and its
\* history log are unchanged), and the cache is unchanged
C14_EmptyTranscriptAborts ==
  [][ (lastOp'.op = "cycleTranscript" /\ Trim(lastOp'.transcript) = "")
      => /\ lastOp'.next = "return"
         /\ cycles' = cycles
         /\ ui' = ui
         /\ summarizer' = summarizer
         /\ summarizeInvocations' = summarizeInvocations
         /\ summarizeInFlight' = summarizeInFlight ]_vars

\* a cycle got a blank transcript while the summarizer was ready, the cache
\* held a summary and the log held a group: it ended there
C14_Witness ==
  /\ lastOp.op = "cycleTranscript" /\ lastOp.transcript = " "
  /\ lastOp.next = "return"
  /\ summarizer.initialized /\ summarizer.currentSummary = "S1"
  /\ Len(ui.questionHistory) = 1 /\ ui.questionsList.kind = "group"

\* C16: a cycle that completes with questions while the pointer is not over the
\* panel appends its group at the end of the history log and moves the cursor
\* to it, whichever cycles were triggered before it and are still in flight;
\* so the log is in the order of completion
C16_CompletionOrder ==
  [][ ( /\ lastOp'.op = "cycleQuestions"
        /\ ~ui.isHovering
        /\ Len(lastOp'.questions) > 0 )
      => /\ ui'.questionHistory =
              Append(ui.questionHistory,
                     [questions |-> lastOp'.questions,
                      timestamp |-> lastOp'.timestamp])
         /\ ui'.currentQuestionGroupIndex = Len(ui'.questionHistory) - 1 ]_vars

\* the cycle triggered at 0 s was overtaken by the one triggered at 30 s and
\* completed after it: the log is <<group of 30 s, group of 0 s>>, the cursor on
\* the second
C16_Witness ==
  /\ lastOp.op = "cycleQuestions" /\ lastOp.overtaken /\ lastOp.timestamp = Sec(0)
  /\ Len(ui.questionHistory) = 2
  /\ ui.questionHistory[1].timestamp = Sec(30)
  /\ ui.questionHistory[2].timestamp = Sec(0)
  /\ ui.currentQuestionGroupIndex = 1
  /\ ~ui.pendingQuestions.set

(***************************************************************************)
(* Claims about navigation to another video                                *)
(***************************************************************************)

\* C19: right after handleVideoNavigation lastTriggerTime is 0 (no boundary is
\* remembered) and the cache is empty; and while no boundary has fired since
\* the navigation, a position update that reaches a boundary second while
\* playback is active and the feature is enabled starts a cycle, also at a
\* boundary that had fired before the navigation
C19_NavigationResets ==
  [][ /\ lastOp'.op = "handleVideoNavigation"
         => /\ assistant'.lastTriggerTime = 0
            /\ summarizer'.currentSummary = NullSummary
            /\ summarizer'.currentSummaryTimeRange = EmptyRange
      /\ ( /\ lastOp'.op = "timeupdate"
           /\ lastOp.op = "handleVideoNavigation"
           /\ Active
           /\ Floor(lastOp'.t) > 0
           /\ Floor(lastOp'.t) % questionGenerationInterval = 0 )
         => lastOp'.started = 1 ]_vars

\* the boundary at 30 s had fired and a summary was cached when the navigation
\* came: it reset both
C19_Witness ==
  /\ lastOp.op = "handleVideoNavigation"
  /\ lastOp.lastTriggerTime = 30 /\ lastOp.currentSummary = "S1"
  /\ assistant.lastTriggerTime = 0
  /\ summarizer.currentSummary = NullSummary

\* C20: after handleVideoNavigation the history log is empty and its cursor
\* is -1
C20_HistoryResetOnNavigation ==
  [][ lastOp'.op = "handleVideoNavigation"
      => /\ ui'.questionHistory = <<>>
         /\ ui'.currentQuestionGroupIndex = -1 ]_vars

(***************************************************************************)
(* Claims about the conversation                                           *)
(***************************************************************************)

\* C21: right after a question is opened (clicked, or typed and submitted) with
\* a window, the turns are exactly the user turn of that question, the context
\* is that window, the streaming flag is set, the loading indicator is shown,
\* and nothing of an earlier conversation is left
C21_OpenStartsConversation ==
  [][ lastOp'.op = "handleQuestionClick"
      => /\ ui'.conversationHistory =
              <<[role |-> "user", content |-> lastOp'.question]>>
         /\ ui'.conversationContext = Context(lastOp'.startTime, lastOp'.endTime)
         /\ ui'.isStreaming
         /\ ui'.answerBlock = LoadingBlock
         /\ ui'.questionBlock = lastOp'.question
         /\ ui'.followupInput = "" ]_vars

\* C22: when the answer request of the open conversation ends successfully
\* after at least one chunk, one assistant turn holding the last chunk received
\* is appended to the turns, and the streaming flag is cleared
C22_CompletionAppendsTurn ==
  [][ ( /\ lastOp'.op = "answerComplete"
        /\ lastOp'.chunks > 0
        /\ ui.chatbox
        /\ ui.conversationHistory[1].content = lastOp'.question )
      => /\ ui'.conversationHistory =
              Append(ui.conversationHistory,
                     [role |-> "assistant",
                      content |-> StreamChunk(lastOp'.question, lastOp'.chunks)])
         /\ ~ui'.isStreaming ]_vars

\* C23: when the answer request of the open conversation fails, in the fetch
\* of its context or in the answer collaborator, the loading indicator is
\* replaced by the failure text, that text is appended as the assistant turn,
\* and the streaming flag is cleared
C23_FailureIsVisible ==
  [][ ( /\ lastOp'.op \in {"answerContextFails", "answerFails"}
        /\ ui.chatbox
        /\ ui.conversationHistory[1].content = lastOp'.question )
      => /\ ui'.answerBlock = [loading |-> FALSE, text |-> SorryText]
         /\ ui'.conversationHistory =
              Append(ui.conversationHistory,
                     [role |-> "assistant", content |-> SorryText])
         /\ ~ui'.isStreaming ]_vars

\* C24: a follow-up message sent on the open conversation appends exactly the
\* user turn of that message after the turns already there, and a request for
\* its answer is issued
C24_FollowUpAppendsAndAsks ==
  [][ (lastOp'.op = "handleSendMessage" /\ lastOp'.sent)
      => /\ ui'.conversationHistory =
              Append(ui.conversationHistory,
                     [role |-> "user", content |-> lastOp'.message])
         /\ lastOp'.requested ]_vars

\* a request of the open conversation is in flight
RequestInFlight ==
  \E k \in 1..Len(answerRequests) : answerRequests[k].current

\* C25: a follow-up sent while a request of the open conversation is in
\* flight is rejected: the turns and the displayed question stay as they were
C25_FollowUpRejectedInFlight ==
  [][ (lastOp'.op = "handleSendMessage" /\ RequestInFlight)
      => /\ ~lastOp'.sent
         /\ ui'.conversationHistory = ui.conversationHistory
         /\ ui'.questionBlock = ui.questionBlock ]_vars

\* C26: the cursor is -1 or an index of the log, and -1 only while the log is
\* empty; every step keeps each group of the log at its position, unchanged
C26_LogInvariant ==
  /\ [](/\ ui.currentQuestionGroupIndex \in -1..(Len(ui.questionHistory) - 1)
        /\ ui.currentQuestionGroupIndex = -1 => Len(ui.questionHistory) = 0)
  /\ [][ \A k \in 1..Len(ui.questionHistory) :
            /\ k <= Len(ui'.questionHistory)
            /\ ui'.questionHistory[k] = ui.questionHistory[k] ]_vars

\* a backward step was asked for with the cursor on the first of three groups,
\* while a conversation is open
C26_Witness ==
  /\ lastOp.op = "navigateBackward"
  /\ Len(ui.questionHistory) = 3
  /\ ui.currentQuestionGroupIndex = 0
  /\ ui.chatbox

\* C27: while the conversation view is not shown, a chunk changes no visible
\* text, and the completion of a request that streamed text leaves that text
\* as the last turn, an assistant turn
C27_HiddenCompletionCommitted ==
  /\ [][ (lastOp'.op = "answerChunk" /\ ~ui.isChatboxVisible)
         => /\ ui'.answerBlock = ui.answerBlock
            /\ ui'.questionBlock = ui.questionBlock ]_vars
  /\ [][ (lastOp'.op = "answerComplete" /\ lastOp'.chunks > 0 /\ ~ui.isChatboxVisible)
         => /\ Len(ui'.conversationHistory) > 0
            /\ ui'.conversationHistory[Len(ui'.conversationHistory)] =
                 [role |-> "assistant",
                  content |-> StreamChunk(lastOp'.question, lastOp'.chunks)] ]_vars

\* C28: whatever the language model answers, as structured output or as lines
\* of text, generateQuestions yields at most 3 questions
C28_AtMostThreeQuestions ==
  [][ lastOp'.op = "generateQuestions" => Len(lastOp'.questions) <= 3 ]_vars

\* C29: the questions shown are the first questions, at most 3, of the stored
\* group under the cursor, in stored order; a delivery stores the whole group
\* it was given and a navigation step leaves the log as it is
C29_DisplayPolicy ==
  /\ [](ui.questionsList.kind = "group"
        => LET stored == ui.questionHistory[ui.currentQuestionGroupIndex + 1].questions
               shown == ui.questionsList.questions
           IN /\ Len(shown) = (IF Len(stored) < 3 THEN Len(stored) ELSE 3)
              /\ \A k \in 1..Len(shown) : shown[k] = stored[k])
  /\ [][ (lastOp'.op = "updateQuestions" /\ ui'.questionHistory # ui.questionHistory)
         => ui'.questionHistory[Len(ui'.questionHistory)].questions = lastOp'.questions ]_vars
  /\ [][ lastOp'.op \in {"navigateBackward", "navigateForward"}
         => ui'.questionHistory = ui.questionHistory ]_vars

\* a forward step has rendered the group of four questions: three are shown
C29_Witness ==
  /\ lastOp.op = "navigateForward"
  /\ ui.questionsList.kind = "group"
  /\ Len(ui.questionsList.questions) = 3
  /\ Len(ui.questionHistory[ui.currentQuestionGroupIndex + 1].questions) = 4
  /\ ui.currentQuestionGroupIndex = lastOp.from + 1

\* C30: when a collaborator call of a generation cycle fails, the log, the
\* cursor and the pending slot stay as they were, no error replaces the list,
\* and while the pointer is over the panel or the query field has the focus
\* the list shown and the text typed stay as they were
C30_CycleFailureIsQuiet ==
  [][ lastOp'.op = "cycleFails"
      => /\ ui'.questionHistory = ui.questionHistory
         /\ ui'.currentQuestionGroupIndex = ui.currentQuestionGroupIndex
         /\ ui'.pendingQuestions = ui.pendingQuestions
         /\ ui'.questionsList.kind # "error"
         /\ Interactive(ui) => /\ ui'.questionsList = ui.questionsList
                               /\ ui'.queryInput = ui.queryInput ]_vars

\* C31: with the summarizer unavailable, initialize still succeeds, a cycle
\* whose transcript is not blank goes straight to the question generator with
\* the empty summary, its group is delivered to the panel, and the summary
\* slot is never written nor the summarizer invoked
C31_SummarizerUnavailable ==
  /\ [][ (lastOp'.op = "initialize" /\ lastOp'.failure = "none")
         => assistant'.isInitialized ]_vars
  /\ [][ (lastOp'.op = "cycleTranscript" /\ ~summarizer.initialized
          /\ Trim(lastOp'.transcript) # "")
         => /\ Len(cycles') = Len(cycles) + 1
            /\ cycles'[Len(cycles')].pc = "questions"
            /\ cycles'[Len(cycles')].videoSummary = "" ]_vars
  /\ [][ (lastOp'.op = "cycleQuestions" /\ ~summarizer.initialized)
         => /\ lastOp'.videoSummary = ""
            /\ IF ui.isHovering
                 THEN ui'.pendingQuestions =
                        [set |-> TRUE, questions |-> lastOp'.questions,
                         timestamp |-> lastOp'.timestamp]
                 ELSE Len(lastOp'.questions) > 0
                        => ui'.questionHistory =
                             Append(ui.questionHistory,
                                    [questions |-> lastOp'.questions,
                                     timestamp |-> lastOp'.timestamp]) ]_vars
  /\ [](~summarizer.initialized
         => /\ summarizer.currentSummary = NullSummary
            /\ summarizeInvocations = 0
            /\ \A k \in 1..Len(cycles) : cycles[k].pc = "questions")

\* the summarizer failed to initialize and a cycle has delivered its group
C31_Witness ==
  /\ assistant.isInitialized /\ ~summarizer.initialized
  /\ lastOp.op = "cycleQuestions"
  /\ lastOp.videoSummary = ""
  /\ Len(lastOp.questions) = 4
  /\ ui.questionHistory = <<[questions |-> lastOp.questions, timestamp |-> lastOp.timestamp]>>

\* the step called hide(): the timer of the play listener, the toggle turning
\* the feature off, or the player's pointer listeners while the video plays
HideCalled ==
  \/ lastOp'.op = "hideTimer"
  \/ lastOp'.op = "toggleAI" /\ ~lastOp'.enabled
  \/ lastOp'.op \in {"playerMouseLeave", "mouseMoveTimer"} /\ lastOp'.hide

\* C32: a call of hide() while the conversation view is open, an answer is
\* streaming, or the query field or the follow-up field has the focus leaves
\* the visibility of the overlay as it was
C32_HideKeepsBusyOverlay ==
  [][ ( /\ HideCalled
        /\ \/ ui.isChatboxVisible
           \/ ui.isStreaming
           \/ ui.activeElement \in {"query", "followup"} )
      => ui'.isVisible = ui.isVisible ]_vars

\* the pointer left the player while the video plays, the visible overlay has
\* no conversation and no stream but the query field has the focus
C32_Witness ==
  /\ lastOp.op = "playerMouseLeave" /\ lastOp.hide
  /\ ui.isVisible
  /\ ~ui.isChatboxVisible /\ ~ui.isStreaming
  /\ ui.activeElement = "query"

\* C33: a summarize call that resolves right after the cache was cleared, and
\* so was in flight at the clear, leaves the slot empty
C33_ClearedCacheStaysEmpty ==
  [][ ( /\ lastOp.op \in {"clearCache", "handleVideoNavigation"}
        /\ lastOp'.op \in {"summarizeResolved", "cycleSummarized"} )
      => /\ summarizer'.currentSummary = NullSummary
         /\ summarizer'.currentSummaryTimeRange = EmptyRange ]_vars

\* C34: whenever the streaming flag is set, it is eventually cleared, provided
\* every await of a click handler ends
C34_StreamingEnds ==
  ui.isStreaming ~> ~ui.isStreaming

\* a request whose conversation was closed before completion has completed and
\* the streaming flag is cleared
C34_Witness ==
  /\ lastOp.op = "answerComplete"
  /\ ~ui.chatbox
  /\ ~ui.isStreaming
  /\ answerRequests = <<>>

C36_DisableDiscardsResults ==
  /\ [][ (lastOp'.op = "toggleAI" /\ ~lastOp'.enabled)
         => ~ui'.pendingQuestions.set ]_vars
  /\ [][ (lastOp'.op = "cycleQuestions" /\ ~ui.aiEnabled)
         => /\ ui'.pendingQuestions = ui.pendingQuestions
            /\ ui'.questionHistory = ui.questionHistory
            /\ ui'.questionsList.kind = ui.questionsList.kind ]_vars

\* C37: the overlay is visible only while the feature is enabled
C37_VisibleOnlyWhenEnabled ==
  ui.isVisible => ui.aiEnabled

\* C38: the turns of the open conversation start with a user turn and no two
\* consecutive turns have the same role
C38_TurnsAlternate ==
  ui.chatbox
    => /\ Len(ui.conversationHistory) > 0 => ui.conversationHistory[1].role = "user"
       /\ \A k \in 1..(Len(ui.conversationHistory) - 1) :
            ui.conversationHistory[k].role # ui.conversationHistory[k + 1].role

\* C39: a delivery of a group with no questions appends nothing to the log and
\* leaves the cursor where it was, and every group in the log has at least
\* one question
C39_NoEmptyGroupInLog ==
  /\ [][ (lastOp'.op = "updateQuestions" /\ Len(lastOp'.questions) = 0)
         => /\ ui'.questionHistory = ui.questionHistory
            /\ ui'.currentQuestionGroupIndex = ui.currentQuestionGroupIndex ]_vars
  /\ [](\A k \in 1..Len(ui.questionHistory) : Len(ui.questionHistory[k].questions) > 0)

\* an empty group was delivered while the second of two groups was current,
\* with the pointer away from the panel
C39_Witness ==
  /\ lastOp.op = "updateQuestions" /\ Len(lastOp.questions) = 0
  /\ ~ui.isHovering /\ ~ui.pendingQuestions.set
  /\ Len(ui.questionHistory) = 2
  /\ ui.currentQuestionGroupIndex = 1
  /\ ui.questionsList.kind = "group"
====
